---- MODULE Spec2Model ----
(***************************************************************************)
(* Model of the raint raster editor (src/main.rs): the pixel canvas, the   *)
(* rasterizer, the snapshot history with its cursor, the tool sessions     *)
(* (shape, line, paint, erase) and the binary loader.                      *)
(*                                                                         *)
(* Vec indices are 0-based in the source and 1-based here: pixel (x, y) of *)
(* a canvas is pixels[y*width + x + 1], and the snapshot under the cursor  *)
(* is canvas_history[history_index + 1].  history_index itself keeps the   *)
(* source's 0-based value.                                                 *)
(***************************************************************************)
EXTENDS Integers, Sequences, FiniteSets, TLC

VARIABLES
    canvas,           \* the live canvas (main.rs:346)
    canvas_history,   \* Vec<Canvas> of snapshots (main.rs:347)
    history_index,    \* the cursor, 0-based (main.rs:348)
    current_color,    \* main.rs:349
    brush_thickness,  \* main.rs:350
    mode,             \* which loop the program is in: main, shape, line, paint, erase
    is_circle,        \* shape session: main.rs:523
    start_pos,        \* shape session (terminal cell) or line session (pixel)
    end_pos,          \* shape session (terminal cell)
    last_pos,         \* paint / erase session (pixel)
    preview_canvas,   \* shape session: the disposable clone that is rendered
    sess,             \* history variable: canvas, snapshots and cursor at session start
    op                \* history variable: the last event handled, with the cursor,
                      \* the history length and the session phase it found

vars == <<canvas, canvas_history, history_index, current_color, brush_thickness,
          mode, is_circle, start_pos, end_pos, last_pos, preview_canvas, sess, op>>

----------------------------------------------------------------------------
(* Bounds and input sets                                                   *)

\* a session or a load starts while the history holds fewer than MaxHist
\* snapshots, so that the history never grows beyond MaxHist entries
MaxHist == 3

\* the numbers typed at the Size> prompt: one for a square, or width and height
SizeInputs == {<<1>>, <<2, 2>>}

\* terminal cells (column, row) the mouse reports; a cell maps to pixel
\* (column / 2, row): here (0, 0), (1, 1), and (2, 2) outside a 2 x 2 canvas
MousePositions == {<<0, 0>>, <<3, 1>>, <<4, 2>>}

White == <<255, 255, 255>>
Black == <<0, 0, 0>>

\* Typed text is a sequence of characters.
\* What is typed at the "RGB values" prompt, split at whitespace:
ColorInputs ==
    { << <<"0">>, <<"0">>, <<"0">> >>,
      << <<"2","5","5">>, <<"2","5","5">>, <<"2","5","5">> >>,
      << <<"2","5","6">>, <<"0">>, <<"0">> >>,
      << <<"0">>, <<"0">> >>,
      << <<"r">>, <<"0">>, <<"0">> >> }

\* what is typed at the "Brush thickness" prompt
ThicknessInputs == { <<"0">>, <<"2">>, <<"a">>, <<>> }

\* what is typed at the "Shape (c=circle/s=square)" prompt
ShapeInputs == { <<"c">>, <<"C">>, <<"s">>, <<"A">>, <<>> }

\* Option<T>: None, and Some(v) is v itself
None == <<>>

Min(a, b) == IF a < b THEN a ELSE b
Max(a, b) == IF a > b THEN a ELSE b
Abs(a) == IF a < 0 THEN -a ELSE a

\* Rust's integer division truncates toward zero
Div(a, b) == IF a >= 0 THEN a \div b ELSE -((-a) \div b)

----------------------------------------------------------------------------
(* Canvas                                                                  *)

Canvas_new(width, height) ==
    [width |-> width, height |-> height,
     pixels |-> [i \in 1..(width * height) |-> White]]

clone_for_preview(c) ==
    [width |-> c.width, height |-> c.height, pixels |-> c.pixels]

\* (variant: the index is taken column by column)
set_pixel_column_major(c, x, y, color) ==
    IF x < c.width /\ y < c.height
    THEN [c EXCEPT !.pixels[x * c.height + y + 1] = color]
    ELSE c

set_pixel(c, x, y, color) ==
    IF x < c.width /\ y < c.height
    THEN [c EXCEPT !.pixels[y * c.width + x + 1] = color]
    ELSE c

get_pixel(c, x, y) ==
    IF x < c.width /\ y < c.height
    THEN c.pixels[y * c.width + x + 1]
    ELSE White

\* (variant: only the lower end is enforced)
clamp_no_max(val, min, max) ==
    IF val < min THEN min ELSE val

clamp(val, min, max) ==
    IF val < min THEN min ELSE IF val > max THEN max ELSE val

\* the guard the i32 rasterizers put in front of set_pixel
InCanvas(c, x, y) == x >= 0 /\ x < c.width /\ y >= 0 /\ y < c.height

----------------------------------------------------------------------------
(* Rasterizer                                                              *)

\* the inner loop "for dx in 0..t" of draw_brush_stroke, at row dy
RECURSIVE brush_row(_, _, _, _, _, _, _)
brush_row(c, x, y, t, color, dy, dx) ==
    IF dx >= t THEN c
    ELSE LET px == x + dx - Div(t, 2)
             py == y + dy - Div(t, 2)
         IN IF InCanvas(c, px, py)
            THEN brush_row(set_pixel(c, px, py, color), x, y, t, color, dy, dx + 1)
            ELSE brush_row(c, x, y, t, color, dy, dx + 1)

\* the outer loop "for dy in 0..t"; a row is complete before the next one
\* begins, which the test on row settles (both of its branches go on from
\* the canvas the row left)
RECURSIVE brush_loop(_, _, _, _, _, _)
brush_loop(c, x, y, t, color, dy) ==
    IF dy >= t THEN c
    ELSE LET row == brush_row(c, x, y, t, color, dy, 0)
         IN IF row = c
            THEN brush_loop(c, x, y, t, color, dy + 1)
            ELSE brush_loop(row, x, y, t, color, dy + 1)

\* (variant: the square of an even thickness leans to the bottom right)
draw_brush_stroke_leans_right(c, x, y, thickness, color) ==
    [c EXCEPT !.pixels =
        [i \in 1..Len(c.pixels) |->
            LET px == (i - 1) % c.width
                py == (i - 1) \div c.width
                left == x - Div(thickness - 1, 2)
                top  == y - Div(thickness - 1, 2)
            IN IF /\ px >= left /\ px < left + thickness
                  /\ py >= top /\ py < top + thickness
               THEN color
               ELSE c.pixels[i]]]

\* (variant: the offset of the square is half the thickness rounded up)
draw_brush_stroke_rounds_up(c, x, y, thickness, color) ==
    [c EXCEPT !.pixels =
        [i \in 1..Len(c.pixels) |->
            LET px == (i - 1) % c.width
                py == (i - 1) \div c.width
                left == x - Div(thickness + 1, 2)
                top  == y - Div(thickness + 1, 2)
            IN IF /\ px >= left /\ px < left + thickness
                  /\ py >= top /\ py < top + thickness
               THEN color
               ELSE c.pixels[i]]]

draw_brush_stroke(c, x, y, thickness, color) ==
    brush_loop(c, x, y, thickness, color, 0)

\* the points the Bresenham loop of draw_line and of draw_line_with_brush
\* visits, in order: the values of (x, y) at the head of each iteration
RECURSIVE line_visits(_, _, _, _, _, _, _, _, _)
line_visits(x, y, x1, y1, dx, dy, sx, sy, err) ==
    IF x = x1 /\ y = y1 THEN << <<x, y>> >>
    ELSE LET e2   == 2 * err
             errA == IF e2 > -dy THEN err - dy ELSE err
             xA   == IF e2 > -dy THEN x + sx ELSE x
             errB == IF e2 < dx THEN errA + dx ELSE errA
             yB   == IF e2 < dx THEN y + sy ELSE y
         IN << <<x, y>> >> \o line_visits(xA, yB, x1, y1, dx, dy, sx, sy, errB)

line_points(x0, y0, x1, y1) ==
    LET dx == Abs(x1 - x0)
        dy == Abs(y1 - y0)
        sx == IF x0 < x1 THEN 1 ELSE -1
        sy == IF y0 < y1 THEN 1 ELSE -1
    IN line_visits(x0, y0, x1, y1, dx, dy, sx, sy, dx - dy)

\* (variant: the loop tests for the end point before it plots)
RECURSIVE line_loop_break_first(_, _, _, _, _, _, _, _, _, _, _)
line_loop_break_first(c, x, y, x1, y1, dx, dy, sx, sy, err, color) ==
    IF x = x1 /\ y = y1 THEN c
    ELSE LET c1   == IF InCanvas(c, x, y) THEN set_pixel(c, x, y, color) ELSE c
             e2   == 2 * err
             errA == IF e2 > -dy THEN err - dy ELSE err
             xA   == IF e2 > -dy THEN x + sx ELSE x
             errB == IF e2 < dx THEN errA + dx ELSE errA
             yB   == IF e2 < dx THEN y + sy ELSE y
         IN line_loop_break_first(c1, xA, yB, x1, y1, dx, dy, sx, sy, errB, color)

draw_line_break_first(c, x0, y0, x1, y1, color) ==
    LET dx == Abs(x1 - x0)
        dy == Abs(y1 - y0)
        sx == IF x0 < x1 THEN 1 ELSE -1
        sy == IF y0 < y1 THEN 1 ELSE -1
    IN line_loop_break_first(c, x0, y0, x1, y1, dx, dy, sx, sy, dx - dy, color)

\* the Bresenham loop of draw_line, one call per iteration
RECURSIVE line_loop(_, _, _, _, _, _, _, _, _, _, _)
line_loop(c, x, y, x1, y1, dx, dy, sx, sy, err, color) ==
    LET c1 == IF InCanvas(c, x, y) THEN set_pixel(c, x, y, color) ELSE c
    IN IF x = x1 /\ y = y1 THEN c1
       ELSE LET e2   == 2 * err
                errA == IF e2 > -dy THEN err - dy ELSE err
                xA   == IF e2 > -dy THEN x + sx ELSE x
                errB == IF e2 < dx THEN errA + dx ELSE errA
                yB   == IF e2 < dx THEN y + sy ELSE y
            IN line_loop(c1, xA, yB, x1, y1, dx, dy, sx, sy, errB, color)

draw_line(c, x0, y0, x1, y1, color) ==
    LET dx == Abs(x1 - x0)
        dy == Abs(y1 - y0)
        sx == IF x0 < x1 THEN 1 ELSE -1
        sy == IF y0 < y1 THEN 1 ELSE -1
    IN line_loop(c, x0, y0, x1, y1, dx, dy, sx, sy, dx - dy, color)

\* (variant: the thick line leaves out the stamp at its end point)
RECURSIVE brush_line_loop_open(_, _, _, _, _, _, _, _, _, _, _, _)
brush_line_loop_open(c, x, y, x1, y1, dx, dy, sx, sy, err, thickness, color) ==
    IF x = x1 /\ y = y1 THEN c
    ELSE LET c1   == IF InCanvas(c, x, y)
                     THEN draw_brush_stroke(c, x, y, thickness, color) ELSE c
             e2   == 2 * err
             errA == IF e2 > -dy THEN err - dy ELSE err
             xA   == IF e2 > -dy THEN x + sx ELSE x
             errB == IF e2 < dx THEN errA + dx ELSE errA
             yB   == IF e2 < dx THEN y + sy ELSE y
         IN brush_line_loop_open(c1, xA, yB, x1, y1, dx, dy, sx, sy, errB, thickness, color)

draw_line_with_brush_open(c, x0, y0, x1, y1, thickness, color) ==
    LET dx == Abs(x1 - x0)
        dy == Abs(y1 - y0)
        sx == IF x0 < x1 THEN 1 ELSE -1
        sy == IF y0 < y1 THEN 1 ELSE -1
    IN brush_line_loop_open(c, x0, y0, x1, y1, dx, dy, sx, sy, dx - dy, thickness, color)

\* the same loop stamping the brush at every visited point inside the canvas
RECURSIVE brush_line_loop(_, _, _, _, _, _, _, _, _, _, _, _)
brush_line_loop(c, x, y, x1, y1, dx, dy, sx, sy, err, thickness, color) ==
    LET c1 == IF InCanvas(c, x, y) THEN draw_brush_stroke(c, x, y, thickness, color) ELSE c
    IN IF x = x1 /\ y = y1 THEN c1
       ELSE LET e2   == 2 * err
                errA == IF e2 > -dy THEN err - dy ELSE err
                xA   == IF e2 > -dy THEN x + sx ELSE x
                errB == IF e2 < dx THEN errA + dx ELSE errA
                yB   == IF e2 < dx THEN y + sy ELSE y
            IN brush_line_loop(c1, xA, yB, x1, y1, dx, dy, sx, sy, errB, thickness, color)

draw_line_with_brush(c, x0, y0, x1, y1, thickness, color) ==
    LET dx == Abs(x1 - x0)
        dy == Abs(y1 - y0)
        sx == IF x0 < x1 THEN 1 ELSE -1
        sy == IF y0 < y1 THEN 1 ELSE -1
    IN brush_line_loop(c, x0, y0, x1, y1, dx, dy, sx, sy, dx - dy, thickness, color)

\* the inner loop "for x in -radius..=radius" of draw_circle, at row y
RECURSIVE circle_row(_, _, _, _, _, _, _)
circle_row(c, cx, cy, radius, color, y, x) ==
    IF x > radius THEN c
    ELSE LET px == cx + x
             py == cy + y
         IN IF x * x + y * y <= radius * radius /\ InCanvas(c, px, py)
            THEN circle_row(set_pixel(c, px, py, color), cx, cy, radius, color, y, x + 1)
            ELSE circle_row(c, cx, cy, radius, color, y, x + 1)

\* the outer loop "for y in -radius..=radius"
RECURSIVE circle_loop(_, _, _, _, _, _)
circle_loop(c, cx, cy, radius, color, y) ==
    IF y > radius THEN c
    ELSE circle_loop(circle_row(c, cx, cy, radius, color, y, -radius),
                     cx, cy, radius, color, y + 1)

\* (variant: the rows start at the center)
draw_circle_lower_half(c, cx, cy, radius, color) ==
    circle_loop(c, cx, cy, radius, color, 0)

draw_circle(c, cx, cy, radius, color) ==
    circle_loop(c, cx, cy, radius, color, -radius)

\* A usize value is written [hi |-> h, lo |-> l] for h * 2^64 + l, 2^64
\* being beyond the integers of the model.  The cast "as usize" keeps an i32
\* that is >= 0 and sends a negative one, v, to 2^64 + v.
as_usize(v) == IF v < 0 THEN [hi |-> 1, lo |-> v] ELSE [hi |-> 0, lo |-> v]

\* a < b on usize values
usize_lt(a, b) == a.hi < b.hi \/ (a.hi = b.hi /\ a.lo < b.lo)

\* "for y in y_min..y_end { for x in x_min..x_end { set_pixel(x, y) } }" for
\* ends within the canvas
RECURSIVE rect_loop(_, _, _, _, _, _, _, _)
rect_loop(c, x_min, x_end, y_min, y_end, color, x, y) ==
    IF y >= y_end \/ x_min >= x_end THEN c
    ELSE IF x >= x_end THEN rect_loop(c, x_min, x_end, y_min, y_end, color, x_min, y + 1)
    ELSE rect_loop(set_pixel(c, x, y, color), x_min, x_end, y_min, y_end, color, x + 1, y)

\* "for y in y_min..y_max { for x in x_min..x_max { set_pixel(x, y) } }" for
\* usize bounds: the canvas the loops leave and whether the call returns.  A
\* range that ends at a wrapped bound has about 2^64 passes, which no run
\* completes: the call stays in that loop, past the pixels of the canvas,
\* where set_pixel does nothing.  With a wrapped x_max that is the loop of the
\* first row; with a wrapped y_max and an empty x range the loop has no body,
\* and the release build, which removes it, returns while the debug build
\* does not.
rect_loops(c, x_min, x_max, y_min, y_max, color) ==
    IF ~usize_lt(y_min, y_max)
    THEN [canvas |-> c, returns |-> {TRUE}]
    ELSE IF x_max.hi = 1
    THEN [canvas  |-> rect_loop(c, x_min.lo, c.width, y_min.lo, y_min.lo + 1, color,
                                x_min.lo, y_min.lo),
          returns |-> {FALSE}]
    ELSE IF y_max.hi = 1
    THEN [canvas  |-> rect_loop(c, x_min.lo, x_max.lo, y_min.lo, c.height, color,
                                x_min.lo, y_min.lo),
          returns |-> IF usize_lt(x_min, x_max) THEN {FALSE} ELSE BOOLEAN]
    ELSE [canvas  |-> rect_loop(c, x_min.lo, x_max.lo, y_min.lo, y_max.lo, color,
                                x_min.lo, y_min.lo),
          returns |-> {TRUE}]

\* one call of draw_rect_preview: [canvas, returns]
draw_rect_preview_run(c, cx, cy, hx, hy, color) ==
    LET x_min == as_usize(Max(cx - hx, 0))
        x_max == as_usize(Min(cx + hx, c.width - 1) + 1)
        y_min == as_usize(Max(cy - hy, 0))
        y_max == as_usize(Min(cy + hy, c.height - 1) + 1)
    IN rect_loops(c, x_min, x_max, y_min, y_max, color)

\* the canvas draw_rect_preview leaves
draw_rect_preview(c, cx, cy, hx, hy, color) ==
    draw_rect_preview_run(c, cx, cy, hx, hy, color).canvas

\* the values of "the call returns" that a build of draw_rect_preview produces
draw_rect_preview_returns(c, cx, cy, hx, hy) ==
    draw_rect_preview_run(c, cx, cy, hx, hy, White).returns

\* one call of draw_rectangle: [canvas, returns]
draw_rectangle_run(c, cx, cy, half_size, color) ==
    LET x_min == as_usize(Max(cx - half_size, 0))
        x_max == as_usize(Min(cx + half_size, c.width - 1) + 1)
        y_min == as_usize(Max(cy - half_size, 0))
        y_max == as_usize(Min(cy + half_size, c.height - 1) + 1)
    IN rect_loops(c, x_min, x_max, y_min, y_max, color)

\* (variant: the box leaves out its last column and its last row)
draw_rectangle_half_open(c, cx, cy, half_size, color) ==
    LET x_min == as_usize(Max(cx - half_size, 0))
        x_max == as_usize(Min(cx + half_size, c.width - 1))
        y_min == as_usize(Max(cy - half_size, 0))
        y_max == as_usize(Min(cy + half_size, c.height - 1))
    IN rect_loops(c, x_min, x_max, y_min, y_max, color).canvas

\* the canvas draw_rectangle leaves
draw_rectangle(c, cx, cy, half_size, color) ==
    draw_rectangle_run(c, cx, cy, half_size, color).canvas

\* the values of "the call returns" that a build of draw_rectangle produces
draw_rectangle_returns(c, cx, cy, half_size) ==
    draw_rectangle_run(c, cx, cy, half_size, White).returns

----------------------------------------------------------------------------
(* Loader                                                                  *)

\* Result<T, E>: Err, or Ok(v)
Err == [ok |-> FALSE]
Ok(v) == [ok |-> TRUE, val |-> v]

\* a call that panics returns no Result: the program ends
Panic == [ok |-> FALSE, panic |-> TRUE]
panicked(result) == "panic" \in DOMAIN result

\* an allocation that fails ends the process through handle_alloc_error
\* ("memory allocation of ... bytes failed", SIGABRT): no Result either
Abort == [ok |-> FALSE, abort |-> TRUE]
aborted(result) == "abort" \in DOMAIN result

\* u32::to_le_bytes of "n as u32"
u32_to_le_bytes(n) ==
    <<n % 256, (n \div 256) % 256, (n \div 65536) % 256, (n \div 16777216) % 256>>

\* (variant: the channels of a pixel are written blue first)
save_canvas_bgr(c) ==
    u32_to_le_bytes(c.width) \o u32_to_le_bytes(c.height)
        \o [k \in 1..(3 * Len(c.pixels)) |->
                c.pixels[((k - 1) \div 3) + 1][3 - ((k - 1) % 3)]]

\* the bytes save_canvas writes to the file: the width, the height, then
\* "for pixel in &canvas.pixels { write_all(&[pixel[0], pixel[1], pixel[2]]) }"
save_canvas(c) ==
    u32_to_le_bytes(c.width) \o u32_to_le_bytes(c.height)
        \o [k \in 1..(3 * Len(c.pixels)) |->
                c.pixels[((k - 1) \div 3) + 1][((k - 1) % 3) + 1]]

\* u32::from_le_bytes of the four bytes that follow offset off
u32_from_le_bytes(bytes, off) ==
    bytes[off + 1] + 256 * bytes[off + 2] + 65536 * bytes[off + 3]
        + 16777216 * bytes[off + 4]

\* the little-endian bytes of the sum of cols[k] * 256^(k-1): each column
\* keeps its low byte and passes the rest on
RECURSIVE carry_bytes(_, _)
carry_bytes(cols, carry) ==
    IF cols = <<>>
    THEN IF carry = 0 THEN <<>>
         ELSE <<carry % 256>> \o carry_bytes(<<>>, carry \div 256)
    ELSE <<(Head(cols) + carry) % 256>>
             \o carry_bytes(Tail(cols), (Head(cols) + carry) \div 256)

\* the little-endian bytes of 3 * width * height, the size in bytes of
\* "vec![[255u8, 255u8, 255u8]; width * height]", from the bytes of the two
\* header fields (the product is beyond the integers of the model)
pixel_bytes(bytes) ==
    carry_bytes([k \in 1..7 |->
                    LET term(i) == IF k + 1 - i \in 1..4
                                   THEN bytes[i] * bytes[4 + (k + 1 - i)]
                                   ELSE 0
                    IN 3 * (term(1) + term(2) + term(3) + term(4))], 0)

\* the vec! panics with "capacity overflow" when the size in bytes is above
\* isize::MAX = 2^63 - 1
capacity_overflow(bytes) ==
    \E k \in 8..Len(pixel_bytes(bytes)) :
        \/ k > 8 /\ pixel_bytes(bytes)[k] > 0
        \/ k = 8 /\ pixel_bytes(bytes)[k] >= 128

\* the size in bytes is 2^47 or more, beyond the address space of a process:
\* no machine grants the allocation
beyond_address_space(bytes) ==
    \E k \in 6..Len(pixel_bytes(bytes)) :
        \/ k > 6 /\ pixel_bytes(bytes)[k] > 0
        \/ k = 6 /\ pixel_bytes(bytes)[k] >= 128

\* the size in bytes is 2^24 or more: whether the allocation is granted
\* depends on the memory of the machine
may_exhaust_memory(bytes) ==
    \E k \in 4..Len(pixel_bytes(bytes)) : pixel_bytes(bytes)[k] > 0

\* the answers the allocator can give to the vec! of load_canvas, TRUE for
\* memory granted (TRUE alone where the call does not reach the allocator)
alloc_granted(file) ==
    IF ~file.ok \/ Len(file.val) < 8 \/ capacity_overflow(file.val) THEN {TRUE}
    ELSE IF beyond_address_space(file.val) THEN {FALSE}
    ELSE IF may_exhaust_memory(file.val) THEN BOOLEAN
    ELSE {TRUE}

\* "for pixel in &mut pixels { file.read_exact(&mut rgb)?; *pixel = rgb; }":
\* pixel i is read at file offset pos; a short read returns the error
RECURSIVE read_pixels(_, _, _, _)
read_pixels(bytes, pixels, i, pos) ==
    IF i > Len(pixels) THEN Ok(pixels)
    ELSE IF Len(bytes) < pos + 3 THEN Err
    ELSE read_pixels(bytes,
                     [pixels EXCEPT ![i] = <<bytes[pos + 1], bytes[pos + 2], bytes[pos + 3]>>],
                     i + 1, pos + 3)

\* (variant: pixel data that ends early leaves the canvas with the pixels read)
load_canvas_partial(file, granted) ==
    IF ~file.ok THEN Err
    ELSE IF Len(file.val) < 4 THEN Err
    ELSE IF Len(file.val) < 8 THEN Err
    ELSE IF capacity_overflow(file.val) THEN Panic
    ELSE IF ~granted THEN Abort
    ELSE LET width  == u32_from_le_bytes(file.val, 0)
             height == u32_from_le_bytes(file.val, 4)
             held   == Min(width * height, (Len(file.val) - 8) \div 3)
         IN Ok([width |-> width, height |-> height,
                pixels |-> [i \in 1..held |->
                               <<file.val[3 * i + 6], file.val[3 * i + 7],
                                 file.val[3 * i + 8]>>]])

\* file is the result of File::open: Err, or Ok(the file's bytes); granted
\* is the answer of the allocator.  The pixel vector is allocated from the
\* header before any pixel is read.
load_canvas(file, granted) ==
    IF ~file.ok THEN Err
    ELSE IF Len(file.val) < 4 THEN Err
    ELSE IF Len(file.val) < 8 THEN Err
    ELSE IF capacity_overflow(file.val) THEN Panic
    ELSE IF ~granted THEN Abort
    ELSE LET width  == u32_from_le_bytes(file.val, 0)
             height == u32_from_le_bytes(file.val, 4)
             pixels == read_pixels(file.val, [i \in 1..(width * height) |-> White], 1, 8)
         IN IF ~pixels.ok THEN Err
            ELSE Ok([width |-> width, height |-> height, pixels |-> pixels.val])

\* the files a load can name: a 1 x 2 image, a 2 x 2 image cut two bytes
\* short, a header cut short in its second and in its first field, an empty
\* file, a header declaring width 0, a header declaring
\* (2^31 - 1) x (2^31 - 1) pixels, and one declaring 2^24 x 2^24 pixels
Disk ==
    [ tall  |-> <<1,0,0,0, 2,0,0,0, 0,0,0, 255,255,255>>,
      cut   |-> <<2,0,0,0, 2,0,0,0, 0,0,0, 0,0,0, 0,0,0, 0>>,
      stub  |-> <<2,0,0,0, 2,0>>,
      half  |-> <<2,0,0>>,
      empty |-> <<>>,
      zero  |-> <<0,0,0,0, 3,0,0,0>>,
      huge  |-> <<255,255,255,127, 255,255,255,127>>,
      vast  |-> <<0,0,0,1, 0,0,0,1>> ]

\* what is typed at the "Open .rai file" prompt
LoadInputs == {"", "missing", "tall", "cut", "stub", "half", "empty", "zero", "huge", "vast"}

open_file(filename) == IF filename \in DOMAIN Disk THEN Ok(Disk[filename]) ELSE Err

----------------------------------------------------------------------------
(* History                                                                 *)

\* canvas_history.truncate(history_index + 1);
\* canvas_history.push(canvas.clone_for_preview());
\* history_index = canvas_history.len() - 1;
\* (variant: the push without the truncation)
commit_keeps_tail(history, index, c) ==
    LET pushed == Append(history, clone_for_preview(c))
    IN [history |-> pushed, index |-> Len(pushed) - 1]

commit(history, index, c) ==
    LET pushed == Append(SubSeq(history, 1, Min(index + 1, Len(history))),
                         clone_for_preview(c))
    IN [history |-> pushed, index |-> Len(pushed) - 1]

\* sess is <<>> outside a session; preview_canvas is <<>> outside a shape session
NoSess == <<>>
SessStart == <<[canvas |-> canvas, history |-> canvas_history, index |-> history_index]>>
\* the phase of a shape or line session: 0 no start point, 1 start only,
\* 2 start and end
Phase == IF start_pos = None THEN 0 ELSE IF end_pos = None THEN 1 ELSE 2
Op(kind) == [kind |-> kind, idx |-> history_index, len |-> Len(canvas_history),
             phase |-> Phase]

\* a session or a load may start while the commit it ends with fits MaxHist
CanCommit == Len(canvas_history) < MaxHist

SessionVars == <<is_circle, start_pos, end_pos, last_pos, preview_canvas, sess>>
HistoryVars == <<canvas_history, history_index>>
BrushVars == <<current_color, brush_thickness>>

----------------------------------------------------------------------------
(* Start-up and the main loop                                              *)

\* the Size> prompt: one number gives a square, two give width and height,
\* each clamped to [2, 80]
canvas_size(input) ==
    IF Len(input) = 1
    THEN <<clamp(input[1], 2, 80), clamp(input[1], 2, 80)>>
    ELSE <<clamp(input[1], 2, 80), clamp(input[2], 2, 80)>>

Init ==
    \E input \in SizeInputs :
        /\ canvas = Canvas_new(canvas_size(input)[1], canvas_size(input)[2])
        /\ canvas_history = <<clone_for_preview(canvas)>>
        /\ history_index = 0
        /\ current_color = Black
        /\ brush_thickness = 1
        /\ mode = "main"
        /\ is_circle = FALSE
        /\ start_pos = None
        /\ end_pos = None
        /\ last_pos = None
        /\ preview_canvas = <<>>
        /\ sess = NoSess
        /\ op = [kind |-> "init", idx |-> 0, len |-> 1, phase |-> 0]

\* (variant: the canvas is restored from the snapshot the cursor leaves)
Undo_stale ==
    /\ mode = "main"
    /\ IF history_index > 0
       THEN /\ history_index' = history_index - 1
            /\ canvas' = clone_for_preview(canvas_history[history_index + 1])
       ELSE UNCHANGED <<history_index, canvas>>
    /\ op' = Op("undo")
    /\ UNCHANGED <<canvas_history, mode, BrushVars, SessionVars>>

\* key z
Undo ==
    /\ mode = "main"
    /\ IF history_index > 0
       THEN /\ history_index' = history_index - 1
            /\ canvas' = clone_for_preview(canvas_history[history_index' + 1])
       ELSE UNCHANGED <<history_index, canvas>>
    /\ op' = Op("undo")
    /\ UNCHANGED <<canvas_history, mode, BrushVars, SessionVars>>

\* (variant: the cursor advances without the test against the length)
Redo_unguarded ==
    /\ mode = "main"
    /\ history_index' = history_index + 1
    /\ canvas' = IF history_index' < Len(canvas_history)
                 THEN clone_for_preview(canvas_history[history_index' + 1])
                 ELSE canvas
    /\ op' = Op("redo")
    /\ UNCHANGED <<canvas_history, mode, BrushVars, SessionVars>>

\* (variant: a redo at the tail wraps to the first snapshot)
Redo_wraps ==
    /\ mode = "main"
    /\ history_index' = (history_index + 1) % Len(canvas_history)
    /\ canvas' = clone_for_preview(canvas_history[history_index' + 1])
    /\ op' = Op("redo")
    /\ UNCHANGED <<canvas_history, mode, BrushVars, SessionVars>>

\* key y
Redo ==
    /\ mode = "main"
    /\ IF history_index < Len(canvas_history) - 1
       THEN /\ history_index' = history_index + 1
            /\ canvas' = clone_for_preview(canvas_history[history_index' + 1])
       ELSE UNCHANGED <<history_index, canvas>>
    /\ op' = Op("redo")
    /\ UNCHANGED <<canvas_history, mode, BrushVars, SessionVars>>

Digit == [c \in {"0","1","2","3","4","5","6","7","8","9"} |->
             CASE c = "0" -> 0 [] c = "1" -> 1 [] c = "2" -> 2 [] c = "3" -> 3
               [] c = "4" -> 4 [] c = "5" -> 5 [] c = "6" -> 6 [] c = "7" -> 7
               [] c = "8" -> 8 [] c = "9" -> 9]

RECURSIVE decimal(_, _)
decimal(text, acc) ==
    IF text = <<>> THEN acc ELSE decimal(Tail(text), 10 * acc + Digit[Head(text)])

\* the decimal digits of usize::MAX = 2^64 - 1
UsizeMaxDigits ==
    <<"1","8","4","4","6","7","4","4","0","7","3","7","0","9","5","5","1","6","1","5">>

\* a run of digits without its leading zeros (the last digit stays)
RECURSIVE strip_zeros(_)
strip_zeros(digits) ==
    IF Len(digits) > 1 /\ Head(digits) = "0" THEN strip_zeros(Tail(digits)) ELSE digits

\* the number written by the digits is above usize::MAX: it has more
\* significant digits, or as many and a larger one at the first difference
exceeds_usize(digits) ==
    LET d == strip_zeros(digits)
    IN \/ Len(d) > Len(UsizeMaxDigits)
       \/ /\ Len(d) = Len(UsizeMaxDigits)
          /\ \E i \in 1..Len(d) :
                /\ Digit[d[i]] > Digit[UsizeMaxDigits[i]]
                /\ \A j \in 1..(i - 1) : d[j] = UsizeMaxDigits[j]

\* str::parse::<usize>(): a non-empty run of decimal digits, after an
\* optional "+", whose value is at most usize::MAX (a larger one is the
\* error "number too large to fit in target type")
parse_usize(text) ==
    LET digits == IF text # <<>> /\ Head(text) = "+" THEN Tail(text) ELSE text
    IN IF digits # <<>> /\ \A i \in 1..Len(digits) : digits[i] \in DOMAIN Digit
       THEN IF exceeds_usize(digits) THEN Err ELSE Ok(decimal(digits, 0))
       ELSE Err

\* (variant: a number outside [1, 10] is dropped like text that is no number)
SetThickness_drops_out_of_range(input) ==
    /\ mode = "main"
    /\ brush_thickness' = IF parse_usize(input).ok /\ parse_usize(input).val \in 1..10
                          THEN parse_usize(input).val
                          ELSE brush_thickness
    /\ op' = Op("thickness")
    /\ UNCHANGED <<canvas, HistoryVars, current_color, mode, SessionVars>>

\* key t
SetThickness(input) ==
    /\ mode = "main"
    /\ brush_thickness' = IF parse_usize(input).ok
                          THEN clamp(parse_usize(input).val, 1, 10)
                          ELSE brush_thickness
    /\ op' = Op("thickness")
    /\ UNCHANGED <<canvas, HistoryVars, current_color, mode, SessionVars>>

\* str::parse::<u8>(): as parse_usize, and the value fits 8 bits
parse_u8(text) ==
    IF parse_usize(text).ok /\ parse_usize(text).val <= 255
    THEN parse_usize(text)
    ELSE Err

\* key c
SetColor(parts) ==
    /\ mode = "main"
    /\ current_color' =
          IF /\ Len(parts) >= 3
             /\ parse_u8(parts[1]).ok
             /\ parse_u8(parts[2]).ok
             /\ parse_u8(parts[3]).ok
          THEN <<parse_u8(parts[1]).val, parse_u8(parts[2]).val, parse_u8(parts[3]).val>>
          ELSE current_color
    /\ op' = Op("color")
    /\ UNCHANGED <<canvas, HistoryVars, brush_thickness, mode, SessionVars>>

\* a panic in load_canvas ends the program in the state it has
LoadPanic ==
    /\ mode' = "panicked"
    /\ op' = Op("load_panicked")
    /\ UNCHANGED <<canvas, HistoryVars, BrushVars, SessionVars>>

\* a failed allocation in load_canvas ends the program in the state it has
LoadAbort ==
    /\ mode' = "aborted"
    /\ op' = Op("load_aborted")
    /\ UNCHANGED <<canvas, HistoryVars, BrushVars, SessionVars>>

\* (variant: the loaded canvas starts a history of its own)
Load_resets_history(filename) ==
    /\ mode = "main"
    /\ CanCommit
    /\ \E granted \in alloc_granted(open_file(filename)) :
       LET loaded == load_canvas(open_file(filename), granted)
       IN IF filename # "" /\ panicked(loaded)
          THEN LoadPanic
          ELSE IF filename # "" /\ aborted(loaded)
          THEN LoadAbort
          ELSE /\ IF filename # "" /\ loaded.ok
                  THEN /\ canvas' = loaded.val
                       /\ canvas_history' = <<clone_for_preview(canvas')>>
                       /\ history_index' = 0
                       /\ op' = Op("load")
                  ELSE /\ UNCHANGED <<canvas, HistoryVars>>
                       /\ op' = Op("load_failed")
               /\ UNCHANGED <<mode, BrushVars, SessionVars>>

\* (variant: the loaded canvas is shown without being pushed)
Load_no_push(filename) ==
    /\ mode = "main"
    /\ CanCommit
    /\ \E granted \in alloc_granted(open_file(filename)) :
       LET loaded == load_canvas(open_file(filename), granted)
       IN IF filename # "" /\ panicked(loaded)
          THEN LoadPanic
          ELSE IF filename # "" /\ aborted(loaded)
          THEN LoadAbort
          ELSE /\ IF filename # "" /\ loaded.ok
                  THEN /\ canvas' = loaded.val
                       /\ UNCHANGED HistoryVars
                       /\ op' = Op("load")
                  ELSE /\ UNCHANGED <<canvas, HistoryVars>>
                       /\ op' = Op(IF filename = "" THEN "load_skipped"
                                   ELSE IF ~open_file(filename).ok THEN "load_no_file"
                                   ELSE "load_failed")
               /\ UNCHANGED <<mode, BrushVars, SessionVars>>

\* key ]: an empty name is skipped; otherwise the file is loaded, or the
\* error of opening or of reading it is printed, or load_canvas panics or
\* aborts
Load(filename) ==
    /\ mode = "main"
    /\ CanCommit
    /\ \E granted \in alloc_granted(open_file(filename)) :
       LET loaded == load_canvas(open_file(filename), granted)
       IN IF filename # "" /\ panicked(loaded)
          THEN LoadPanic
          ELSE IF filename # "" /\ aborted(loaded)
          THEN LoadAbort
          ELSE /\ IF filename # "" /\ loaded.ok
                  THEN /\ canvas' = loaded.val
                       /\ canvas_history' = commit(canvas_history, history_index, canvas').history
                       /\ history_index' = commit(canvas_history, history_index, canvas').index
                       /\ op' = Op("load")
                  ELSE /\ UNCHANGED <<canvas, HistoryVars>>
                       /\ op' = Op(IF filename = "" THEN "load_skipped"
                                   ELSE IF ~open_file(filename).ok THEN "load_no_file"
                                   ELSE "load_failed")
               /\ UNCHANGED <<mode, BrushVars, SessionVars>>

\* what is typed at the filename prompts of keys [ and *
SaveInputs == {"", "out"}

\* keys [ and *: an empty name is skipped; otherwise save_canvas writes the
\* live canvas to the named file, which op records
save_key(kind, filename) ==
    /\ mode = "main"
    /\ op' = IF filename = ""
             THEN [Op(kind) EXCEPT !.kind = kind \o "_skipped"]
             ELSE [kind |-> kind, idx |-> history_index, len |-> Len(canvas_history),
                   phase |-> Phase, file |-> save_canvas(canvas)]
    /\ UNCHANGED <<canvas, HistoryVars, mode, BrushVars, SessionVars>>

\* key [
Export(filename) == save_key("export", filename)

\* key *
Save(filename) == save_key("save", filename)

----------------------------------------------------------------------------
(* Shape session (key s)                                                   *)

\* (variant: a radius or half-extent of 0 is kept)
shape_draw_no_floor(c, start, end, circ, color) ==
    LET sx_px == Div(start[1], 2)
        sy_px == start[2]
        ex_px == Div(end[1], 2)
        ey_px == end[2]
        dx == Abs(ex_px - sx_px)
        dy == Abs(ey_px - sy_px)
        cx == Div(sx_px + ex_px, 2)
        cy == Div(sy_px + ey_px, 2)
    IN IF circ
       THEN draw_circle(c, cx, cy, Div(Max(dx, dy), 2), color)
       ELSE draw_rect_preview(c, cx, cy, Div(dx, 2), Div(dy, 2), color)

\* the drawing both the preview and the commit perform from the two cells
shape_draw(c, start, end, circ, color) ==
    LET sx_px == Div(start[1], 2)
        sy_px == start[2]
        ex_px == Div(end[1], 2)
        ey_px == end[2]
        dx == Abs(ex_px - sx_px)
        dy == Abs(ey_px - sy_px)
        cx == Div(sx_px + ex_px, 2)
        cy == Div(sy_px + ey_px, 2)
    IN IF circ
       THEN draw_circle(c, cx, cy, Max(Div(Max(dx, dy), 2), 1), color)
       ELSE draw_rect_preview(c, cx, cy, Max(Div(dx, 2), 1), Max(Div(dy, 2), 1), color)

\* (variant: the shape is drawn on the live canvas, which is then cloned)
render_preview_on_live(c, start, end, circ, color) ==
    LET drawn == IF start # None /\ end # None
                 THEN shape_draw(c, start, end, circ, color)
                 ELSE c
    IN [live |-> drawn, preview |-> clone_for_preview(drawn)]

\* the head of one iteration of 'shape_loop: the live canvas is cloned and the
\* shape, when both points are set, is drawn on the clone
render_preview(c, start, end, circ, color) ==
    [live    |-> c,
     preview |-> IF start # None /\ end # None
                 THEN shape_draw(clone_for_preview(c), start, end, circ, color)
                 ELSE clone_for_preview(c)]

\* the lower-case letter of each upper-case ASCII letter
Lowercase ==
    [A |-> "a", B |-> "b", C |-> "c", D |-> "d", E |-> "e", F |-> "f", G |-> "g",
     H |-> "h", I |-> "i", J |-> "j", K |-> "k", L |-> "l", M |-> "m", N |-> "n",
     O |-> "o", P |-> "p", Q |-> "q", R |-> "r", S |-> "s", T |-> "t", U |-> "u",
     V |-> "v", W |-> "w", X |-> "x", Y |-> "y", Z |-> "z"]

\* str::to_lowercase() on one character of ASCII text
to_lowercase(ch) == IF ch \in DOMAIN Lowercase THEN Lowercase[ch] ELSE ch

starts_with_c(text) == text # <<>> /\ to_lowercase(Head(text)) = "c"

\* what a shape-loop iteration that stays in the loop leaves behind
ShapeStay(start, end) ==
    /\ start_pos' = start
    /\ end_pos' = end
    /\ canvas' = render_preview(canvas, start, end, is_circle, current_color).live
    /\ preview_canvas' = <<render_preview(canvas, start, end, is_circle, current_color).preview>>
    /\ UNCHANGED <<HistoryVars, BrushVars, mode, is_circle, last_pos, sess>>

\* what leaving a session leaves behind: its locals go out of scope
SessionEnd ==
    /\ mode' = "main"
    /\ is_circle' = FALSE
    /\ start_pos' = None
    /\ end_pos' = None
    /\ last_pos' = None
    /\ preview_canvas' = <<>>
    /\ sess' = NoSess

ShapeBegin(input) ==
    /\ mode = "main"
    /\ CanCommit
    /\ mode' = "shape"
    /\ is_circle' = starts_with_c(input)
    /\ start_pos' = None
    /\ end_pos' = None
    /\ canvas' = render_preview(canvas, None, None, is_circle', current_color).live
    /\ preview_canvas' = <<render_preview(canvas, None, None, is_circle', current_color).preview>>
    /\ sess' = SessStart
    /\ op' = Op("shape_begin")
    /\ UNCHANGED <<HistoryVars, BrushVars, last_pos>>

ShapeDown(p) ==
    /\ mode = "shape"
    /\ IF start_pos = None THEN ShapeStay(p, end_pos) ELSE ShapeStay(start_pos, p)
    /\ op' = Op("shape_down")

ShapeDrag(p) ==
    /\ mode = "shape"
    /\ IF start_pos # None /\ end_pos = None
       THEN ShapeStay(start_pos, p)
       ELSE ShapeStay(start_pos, end_pos)
    /\ op' = Op("shape_drag")

ShapeMoved(p) ==
    /\ mode = "shape"
    /\ IF start_pos # None /\ end_pos # None
       THEN ShapeStay(start_pos, p)
       ELSE ShapeStay(start_pos, end_pos)
    /\ op' = Op("shape_moved")

\* (variant: the shape is drawn and the session ends without the push)
ShapeUp_no_push(p) ==
    /\ mode = "shape"
    /\ IF start_pos # None /\ end_pos # None
       THEN /\ canvas' = shape_draw(canvas, start_pos, end_pos, is_circle, current_color)
            /\ SessionEnd
            /\ UNCHANGED <<HistoryVars, BrushVars>>
       ELSE ShapeStay(start_pos, end_pos)
    /\ op' = Op("shape_up")

ShapeUp(p) ==
    /\ mode = "shape"
    /\ IF start_pos # None /\ end_pos # None
       THEN /\ canvas' = shape_draw(canvas, start_pos, end_pos, is_circle, current_color)
            /\ canvas_history' = commit(canvas_history, history_index, canvas').history
            /\ history_index' = commit(canvas_history, history_index, canvas').index
            /\ SessionEnd
            /\ UNCHANGED BrushVars
       ELSE ShapeStay(start_pos, end_pos)
    /\ op' = Op("shape_up")

\* (variant: cancel steps the cursor back as an undo would)
ShapeEsc_rolls_back ==
    /\ mode = "shape"
    /\ SessionEnd
    /\ op' = Op("shape_esc")
    /\ history_index' = IF history_index > 0 THEN history_index - 1 ELSE history_index
    /\ canvas' = clone_for_preview(canvas_history[history_index' + 1])
    /\ UNCHANGED <<canvas_history, BrushVars>>

ShapeEsc ==
    /\ mode = "shape"
    /\ SessionEnd
    /\ op' = Op("shape_esc")
    /\ UNCHANGED <<canvas, HistoryVars, BrushVars>>

----------------------------------------------------------------------------
(* Line session (key l)                                                    *)

LineBegin ==
    /\ mode = "main"
    /\ CanCommit
    /\ mode' = "line"
    /\ start_pos' = None
    /\ sess' = SessStart
    /\ op' = Op("line_begin")
    /\ UNCHANGED <<canvas, HistoryVars, BrushVars, is_circle, end_pos, last_pos, preview_canvas>>

\* (variant: the column is used as a pixel x without the division by two)
LineDown_raw_column(p) ==
    /\ mode = "line"
    /\ LET col == p[1]
           row == p[2]
       IN IF start_pos # None
          THEN /\ canvas' = draw_line(canvas, start_pos[1], start_pos[2], col, row, current_color)
               /\ canvas_history' = commit(canvas_history, history_index, canvas').history
               /\ history_index' = commit(canvas_history, history_index, canvas').index
               /\ SessionEnd
               /\ UNCHANGED BrushVars
          ELSE /\ start_pos' = <<col, row>>
               /\ UNCHANGED <<canvas, HistoryVars, BrushVars, mode, is_circle, end_pos,
                              last_pos, preview_canvas, sess>>
    /\ op' = Op("line_down")

LineDown(p) ==
    /\ mode = "line"
    /\ LET col == Div(p[1], 2)
           row == p[2]
       IN IF start_pos # None
          THEN /\ canvas' = draw_line(canvas, start_pos[1], start_pos[2], col, row, current_color)
               /\ canvas_history' = commit(canvas_history, history_index, canvas').history
               /\ history_index' = commit(canvas_history, history_index, canvas').index
               /\ SessionEnd
               /\ UNCHANGED BrushVars
          ELSE /\ start_pos' = <<col, row>>
               /\ UNCHANGED <<canvas, HistoryVars, BrushVars, mode, is_circle, end_pos,
                              last_pos, preview_canvas, sess>>
    /\ op' = Op("line_down")

\* mouse events that are not a button press: drag, move, release
LineOther ==
    /\ mode = "line"
    /\ op' = Op("line_other")
    /\ UNCHANGED <<canvas, HistoryVars, BrushVars, mode, SessionVars>>

LineEsc ==
    /\ mode = "line"
    /\ SessionEnd
    /\ op' = Op("line_esc")
    /\ UNCHANGED <<canvas, HistoryVars, BrushVars>>

----------------------------------------------------------------------------
(* Paint session (key p)                                                   *)

PaintBegin ==
    /\ mode = "main"
    /\ CanCommit
    /\ mode' = "paint"
    /\ last_pos' = None
    /\ sess' = SessStart
    /\ op' = Op("paint_begin")
    /\ UNCHANGED <<canvas, HistoryVars, BrushVars, is_circle, start_pos, end_pos, preview_canvas>>

\* the state a freehand session works on, and the events it is fed
FreehandState ==
    [canvas |-> canvas, last |-> last_pos, history |-> canvas_history,
     index |-> history_index, active |-> TRUE]
FreehandEvents ==
    {[kind |-> "drag", pos |-> p] : p \in MousePositions}
        \cup {[kind |-> "up", pos |-> None], [kind |-> "exit", pos |-> None],
              [kind |-> "other", pos |-> None]}

\* (variant: a button release keeps the last sampled point)
paint_event_keeps_last(s, ev, thickness, color) ==
    CASE ev.kind = "drag" ->
             LET col == Div(ev.pos[1], 2)
                 row == ev.pos[2]
             IN [s EXCEPT !.canvas =
                              IF s.last # None
                              THEN draw_line_with_brush(s.canvas, s.last[1], s.last[2],
                                                        col, row, thickness, color)
                              ELSE draw_brush_stroke(s.canvas, col, row, thickness, color),
                          !.last = <<col, row>>]
      [] ev.kind = "exit" ->
             [s EXCEPT !.history = commit(s.history, s.index, s.canvas).history,
                       !.index = commit(s.history, s.index, s.canvas).index,
                       !.active = FALSE]
      [] OTHER -> s

\* one pass of 'paint_loop over an event: a drag sample, a button release,
\* one of Esc, p, P, or anything else
paint_event(s, ev, thickness, color) ==
    CASE ev.kind = "drag" ->
             LET col == Div(ev.pos[1], 2)
                 row == ev.pos[2]
             IN [s EXCEPT !.canvas =
                              IF s.last # None
                              THEN draw_line_with_brush(s.canvas, s.last[1], s.last[2],
                                                        col, row, thickness, color)
                              ELSE draw_brush_stroke(s.canvas, col, row, thickness, color),
                          !.last = <<col, row>>]
      [] ev.kind = "up" -> [s EXCEPT !.last = None]
      [] ev.kind = "exit" ->
             [s EXCEPT !.history = commit(s.history, s.index, s.canvas).history,
                       !.index = commit(s.history, s.index, s.canvas).index,
                       !.active = FALSE]
      [] OTHER -> s

\* (variant: the snapshot at the cursor shares the live canvas's buffer)
FreehandApply_aliased(s) ==
    /\ canvas' = s.canvas
    /\ canvas_history' = [s.history EXCEPT ![s.index + 1] = s.canvas]
    /\ history_index' = s.index
    /\ IF s.active
       THEN /\ last_pos' = s.last
            /\ UNCHANGED <<mode, is_circle, start_pos, end_pos, preview_canvas, sess>>
       ELSE SessionEnd

\* the session's variables after a pass that left it in state s
FreehandApply(s) ==
    /\ canvas' = s.canvas
    /\ canvas_history' = s.history
    /\ history_index' = s.index
    /\ IF s.active
       THEN /\ last_pos' = s.last
            /\ UNCHANGED <<mode, is_circle, start_pos, end_pos, preview_canvas, sess>>
       ELSE SessionEnd

PaintDrag(p) ==
    /\ mode = "paint"
    /\ FreehandApply(paint_event(FreehandState, [kind |-> "drag", pos |-> p],
                                 brush_thickness, current_color))
    /\ op' = Op("paint_drag")
    /\ UNCHANGED BrushVars

\* (variant: releasing the button commits the stroke and ends the session)
PaintUp_commits ==
    /\ mode = "paint"
    /\ canvas_history' = commit(canvas_history, history_index, canvas).history
    /\ history_index' = commit(canvas_history, history_index, canvas).index
    /\ SessionEnd
    /\ op' = Op("paint_up")
    /\ UNCHANGED <<canvas, BrushVars>>

PaintUp ==
    /\ mode = "paint"
    /\ FreehandApply(paint_event(FreehandState, [kind |-> "up", pos |-> None],
                                 brush_thickness, current_color))
    /\ op' = Op("paint_up")
    /\ UNCHANGED BrushVars

\* Esc, p or P
PaintExit ==
    /\ mode = "paint"
    /\ FreehandApply(paint_event(FreehandState, [kind |-> "exit", pos |-> None],
                                 brush_thickness, current_color))
    /\ op' = Op("paint_exit")
    /\ UNCHANGED BrushVars

----------------------------------------------------------------------------
(* Eraser session (key e)                                                  *)

EraseBegin ==
    /\ mode = "main"
    /\ CanCommit
    /\ mode' = "erase"
    /\ last_pos' = None
    /\ sess' = SessStart
    /\ op' = Op("erase_begin")
    /\ UNCHANGED <<canvas, HistoryVars, BrushVars, is_circle, start_pos, end_pos, preview_canvas>>

\* (variant: the eraser always stamps one cell)
erase_event_thin(s, ev, thickness) ==
    CASE ev.kind = "drag" ->
             LET col == Div(ev.pos[1], 2)
                 row == ev.pos[2]
             IN [s EXCEPT !.canvas =
                              IF s.last # None
                              THEN draw_line_with_brush(s.canvas, s.last[1], s.last[2],
                                                        col, row, 1, <<255, 255, 255>>)
                              ELSE draw_brush_stroke(s.canvas, col, row, 1,
                                                     <<255, 255, 255>>),
                          !.last = <<col, row>>]
      [] ev.kind = "up" -> [s EXCEPT !.last = None]
      [] ev.kind = "exit" ->
             [s EXCEPT !.history = commit(s.history, s.index, s.canvas).history,
                       !.index = commit(s.history, s.index, s.canvas).index,
                       !.active = FALSE]
      [] OTHER -> s

\* one pass of 'erase_loop over an event: a drag sample, a button release,
\* one of Esc, e, E, or anything else
erase_event(s, ev, thickness) ==
    CASE ev.kind = "drag" ->
             LET col == Div(ev.pos[1], 2)
                 row == ev.pos[2]
             IN [s EXCEPT !.canvas =
                              IF s.last # None
                              THEN draw_line_with_brush(s.canvas, s.last[1], s.last[2],
                                                        col, row, thickness,
                                                        <<255, 255, 255>>)
                              ELSE draw_brush_stroke(s.canvas, col, row, thickness,
                                                     <<255, 255, 255>>),
                          !.last = <<col, row>>]
      [] ev.kind = "up" -> [s EXCEPT !.last = None]
      [] ev.kind = "exit" ->
             [s EXCEPT !.history = commit(s.history, s.index, s.canvas).history,
                       !.index = commit(s.history, s.index, s.canvas).index,
                       !.active = FALSE]
      [] OTHER -> s

EraseDrag(p) ==
    /\ mode = "erase"
    /\ FreehandApply(erase_event(FreehandState, [kind |-> "drag", pos |-> p],
                                 brush_thickness))
    /\ op' = Op("erase_drag")
    /\ UNCHANGED BrushVars

EraseUp ==
    /\ mode = "erase"
    /\ FreehandApply(erase_event(FreehandState, [kind |-> "up", pos |-> None],
                                 brush_thickness))
    /\ op' = Op("erase_up")
    /\ UNCHANGED BrushVars

\* Esc, e or E
EraseExit ==
    /\ mode = "erase"
    /\ FreehandApply(erase_event(FreehandState, [kind |-> "exit", pos |-> None],
                                 brush_thickness))
    /\ op' = Op("erase_exit")
    /\ UNCHANGED BrushVars

----------------------------------------------------------------------------
Next ==
    \/ Undo
    \/ Redo
    \/ \E input \in ThicknessInputs : SetThickness(input)
    \/ \E parts \in ColorInputs : SetColor(parts)
    \/ \E filename \in LoadInputs : Load(filename)
    \/ \E filename \in SaveInputs : Export(filename)
    \/ \E filename \in SaveInputs : Save(filename)
    \/ \E input \in ShapeInputs : ShapeBegin(input)
    \/ \E p \in MousePositions : ShapeDown(p)
    \/ \E p \in MousePositions : ShapeDrag(p)
    \/ \E p \in MousePositions : ShapeMoved(p)
    \/ \E p \in MousePositions : ShapeUp(p)
    \/ ShapeEsc
    \/ LineBegin
    \/ \E p \in MousePositions : LineDown(p)
    \/ LineOther
    \/ LineEsc
    \/ PaintBegin
    \/ \E p \in MousePositions : PaintDrag(p)
    \/ PaintUp
    \/ PaintExit
    \/ EraseBegin
    \/ \E p \in MousePositions : EraseDrag(p)
    \/ EraseUp
    \/ EraseExit

Spec == Init /\ [][Next]_vars

----------------------------------------------------------------------------
(* Brush: the thickness prompt and the sessions that stamp with it         *)

\* what is typed at the "Brush thickness (1-10)" prompt: numbers below, inside
\* and above the range, and text that is no unsigned number
WideThicknessInputs ==
    { <<"0">>, <<"1">>, <<"2">>, <<"+", "2">>, <<"1", "1">>, <<"1", "5">>,
      <<"0", "1", "5">>, <<"a">>, <<"-", "3">>, <<"+">>, <<>>,
      \* 2^64, one above usize::MAX, and 0 written with 21 digits
      <<"1","8","4","4","6","7","4","4","0","7","3","7","0","9","5","5","1","6","1","6">>,
      <<"0","0","0","0","0","0","0","0","0","0","0","0","0","0","0","0","0","0","0","0","0">> }

BrushNext ==
    \/ \E input \in WideThicknessInputs : SetThickness(input)
    \/ PaintBegin
    \/ \E p \in MousePositions : PaintDrag(p)
    \/ PaintUp
    \/ PaintExit
    \/ EraseBegin
    \/ \E p \in MousePositions : EraseDrag(p)
    \/ EraseUp
    \/ EraseExit

BrushSpec == Init /\ [][BrushNext]_vars

----------------------------------------------------------------------------
(* Codec: save_canvas and load_canvas applied to bounded canvases          *)

\* the sides of the small canvases, and the width of the one empty canvas
\* whose header needs a second byte
MaxSide == 2
WideSide == 257

\* channel values at both ends of a byte and in between
Palette == {White, Black, <<7, 128, 255>>}

\* every canvas over Palette with sides up to side, and the wide one
CodecCanvases(side) ==
    UNION { { [width |-> w, height |-> h, pixels |-> px] :
                px \in [1..(w * h) -> Palette] } :
            w \in 0..side, h \in 0..side }
        \cup {Canvas_new(WideSide, 0)}

\* the variables of the editor that a run over one function leaves alone
Idle(m) ==
    /\ canvas_history = <<clone_for_preview(canvas)>>
    /\ history_index = 0
    /\ current_color = Black
    /\ brush_thickness = 1
    /\ mode = m
    /\ is_circle = FALSE
    /\ start_pos = None
    /\ end_pos = None
    /\ last_pos = None
    /\ preview_canvas = <<>>
    /\ sess = NoSess
    /\ op = [kind |-> "init"]

IdleVars == <<canvas_history, history_index, current_color, brush_thickness, mode,
              is_circle, start_pos, end_pos, last_pos, preview_canvas>>

CodecInit ==
    /\ canvas \in CodecCanvases(MaxSide)
    /\ Idle("codec")

\* save_canvas(&canvas, path): op.file is the file it leaves
CodecSave ==
    /\ mode = "codec"
    /\ op.kind = "init"
    /\ op' = [kind |-> "codec_save", file |-> Ok(save_canvas(canvas))]
    /\ sess' = SessStart
    /\ UNCHANGED <<canvas, IdleVars>>

\* load_canvas(path) of the file just saved
CodecLoad ==
    /\ mode = "codec"
    /\ op.kind = "codec_save"
    /\ \E granted \in alloc_granted(op.file) :
       LET loaded == load_canvas(op.file, granted)
       IN /\ canvas' = IF loaded.ok THEN loaded.val ELSE canvas
          /\ op' = [kind |-> "codec_load", file |-> op.file, ok |-> loaded.ok]
    /\ UNCHANGED <<sess, IdleVars>>

CodecNext == CodecSave \/ CodecLoad

CodecSpec == CodecInit /\ [][CodecNext]_vars

----------------------------------------------------------------------------
(* Rasterizer: the drawing functions applied to bounded canvases           *)

\* coordinates run up to MaxCoord (from 0 where the code takes usize, from -1
\* where it takes i32), radii from 0 to MaxRadius
MaxCoord == 3
MaxRadius == 3

Grey == <<128, 128, 128>>
DrawColors == {Black, Grey}

\* brush thicknesses run from 1 to MaxThickness
MaxThickness == 4

\* the sizes of the small canvases, and one canvas that holds the 7 x 7 box
\* around (10, 10)
RasterSizes == {<<2, 2>>, <<3, 2>>, <<2, 3>>, <<3, 3>>}
BoxSize == <<14, 14>>

\* centers and half-extents given to the rectangles: around and inside the
\* small canvases, and the center (10, 10); negative and positive extents
RectCoords == (-3..MaxCoord) \cup {10}
RectExtents == -2..MaxRadius

\* a blank canvas and a canvas of grey and white cells, of each size
RasterCanvases ==
    UNION { { Canvas_new(size[1], size[2]),
              [width |-> size[1], height |-> size[2],
               pixels |-> [i \in 1..(size[1] * size[2]) |->
                              IF i % 2 = 1 THEN Grey ELSE White]] } :
            size \in RasterSizes }
        \cup {Canvas_new(BoxSize[1], BoxSize[2])}

RasterInit ==
    /\ canvas \in RasterCanvases
    /\ Idle("raster")

\* canvas.set_pixel(x, y, color)
SetPixelCall(x, y, color) ==
    /\ mode = "raster"
    /\ op.kind = "init"
    /\ canvas' = set_pixel(canvas, x, y, color)
    /\ sess' = SessStart
    /\ op' = [kind |-> "set_pixel", x |-> x, y |-> y, color |-> color]
    /\ UNCHANGED IdleVars

\* draw_circle(&mut canvas, cx, cy, radius, color)
DrawCircleCall(cx, cy, radius, color) ==
    /\ mode = "raster"
    /\ op.kind = "init"
    /\ canvas' = draw_circle(canvas, cx, cy, radius, color)
    /\ sess' = SessStart
    /\ op' = [kind |-> "draw_circle", cx |-> cx, cy |-> cy, radius |-> radius,
              color |-> color]
    /\ UNCHANGED IdleVars

\* draw_rectangle(&mut canvas, cx, cy, half_size, color): canvas is the canvas
\* the call leaves, on its return or in the loop it stays in, and op records
\* whether it returned
DrawRectangleCall(cx, cy, half_size, color) ==
    /\ mode = "raster"
    /\ op.kind = "init"
    /\ canvas' = draw_rectangle(canvas, cx, cy, half_size, color)
    /\ sess' = SessStart
    /\ \E returned \in draw_rectangle_returns(canvas, cx, cy, half_size) :
          op' = [kind |-> "draw_rectangle", cx |-> cx, cy |-> cy, hx |-> half_size,
                 hy |-> half_size, color |-> color, returned |-> returned]
    /\ UNCHANGED IdleVars

\* draw_rect_preview(&mut canvas, cx, cy, hx, hy, color): as DrawRectangleCall
DrawRectPreviewCall(cx, cy, hx, hy, color) ==
    /\ mode = "raster"
    /\ op.kind = "init"
    /\ canvas' = draw_rect_preview(canvas, cx, cy, hx, hy, color)
    /\ sess' = SessStart
    /\ \E returned \in draw_rect_preview_returns(canvas, cx, cy, hx, hy) :
          op' = [kind |-> "draw_rect_preview", cx |-> cx, cy |-> cy, hx |-> hx,
                 hy |-> hy, color |-> color, returned |-> returned]
    /\ UNCHANGED IdleVars

\* draw_line(&mut canvas, x0, y0, x1, y1, color)
DrawLineCall(x0, y0, x1, y1, color) ==
    /\ mode = "raster"
    /\ op.kind = "init"
    /\ canvas' = draw_line(canvas, x0, y0, x1, y1, color)
    /\ sess' = SessStart
    /\ op' = [kind |-> "draw_line", x0 |-> x0, y0 |-> y0, x1 |-> x1, y1 |-> y1,
              color |-> color]
    /\ UNCHANGED IdleVars

\* draw_line_with_brush(&mut canvas, x0, y0, x1, y1, thickness, color)
DrawLineWithBrushCall(x0, y0, x1, y1, thickness, color) ==
    /\ mode = "raster"
    /\ op.kind = "init"
    /\ canvas' = draw_line_with_brush(canvas, x0, y0, x1, y1, thickness, color)
    /\ sess' = SessStart
    /\ op' = [kind |-> "draw_line_with_brush", x0 |-> x0, y0 |-> y0, x1 |-> x1,
              y1 |-> y1, thickness |-> thickness, color |-> color]
    /\ UNCHANGED IdleVars

\* draw_brush_stroke(&mut canvas, x, y, thickness, color)
DrawBrushStrokeCall(x, y, thickness, color) ==
    /\ mode = "raster"
    /\ op.kind = "init"
    /\ canvas' = draw_brush_stroke(canvas, x, y, thickness, color)
    /\ sess' = SessStart
    /\ op' = [kind |-> "draw_brush_stroke", x |-> x, y |-> y,
              thickness |-> thickness, color |-> color]
    /\ UNCHANGED IdleVars

\* one call is made on each canvas
Fresh == mode = "raster" /\ op.kind = "init"

RasterNext ==
    \/ /\ Fresh
       /\ \E x \in 0..MaxCoord, y \in 0..MaxCoord, color \in DrawColors :
            SetPixelCall(x, y, color)
    \/ /\ Fresh
       /\ \E cx \in -1..MaxCoord, cy \in -1..MaxCoord, radius \in 0..MaxRadius,
             color \in DrawColors :
            DrawCircleCall(cx, cy, radius, color)
    \/ /\ Fresh
       /\ \E cx \in RectCoords, cy \in RectCoords, half_size \in RectExtents,
             color \in DrawColors :
            DrawRectangleCall(cx, cy, half_size, color)
    \/ /\ Fresh
       /\ \E cx \in RectCoords, cy \in RectCoords, hx \in RectExtents,
             hy \in RectExtents :
            DrawRectPreviewCall(cx, cy, hx, hy, Black)
    \/ /\ Fresh
       /\ \E x0 \in -1..MaxCoord, y0 \in -1..MaxCoord, x1 \in -1..MaxCoord,
             y1 \in -1..MaxCoord, color \in DrawColors :
            DrawLineCall(x0, y0, x1, y1, color)
    \/ /\ Fresh
       /\ \E x0 \in -1..MaxCoord, y0 \in -1..MaxCoord, x1 \in -1..MaxCoord,
             y1 \in -1..MaxCoord, thickness \in 1..MaxThickness :
            DrawLineWithBrushCall(x0, y0, x1, y1, thickness, Black)
    \/ /\ Fresh
       /\ \E x \in 0..MaxCoord, y \in 0..MaxCoord, thickness \in 1..MaxThickness,
             color \in DrawColors :
            DrawBrushStrokeCall(x, y, thickness, color)

RasterSpec == RasterInit /\ [][RasterNext]_vars

----------------------------------------------------------------------------
(* Shape: one shape session on a canvas wide enough for a whole shape      *)

\* what is typed at the Size> prompt
ShapeSizeInputs == {<<3>>, <<4, 3>>}

\* the terminal cells of the mouse events: two columns per pixel, on the
\* canvas and, from column 6 and row 3 on, beside it
ShapeCells == ({0, 2, 3, 4, 6} \X (0..2)) \cup {<<7, 3>>}

ShapeInit ==
    \E input \in ShapeSizeInputs :
        /\ canvas = Canvas_new(canvas_size(input)[1], canvas_size(input)[2])
        /\ canvas_history = <<clone_for_preview(canvas)>>
        /\ history_index = 0
        /\ current_color = Black
        /\ brush_thickness = 1
        /\ mode = "main"
        /\ is_circle = FALSE
        /\ start_pos = None
        /\ end_pos = None
        /\ last_pos = None
        /\ preview_canvas = <<>>
        /\ sess = NoSess
        /\ op = [kind |-> "init", idx |-> 0, len |-> 1, phase |-> 0]

\* no shape has been committed yet
FirstShape == Len(canvas_history) = 1

ShapeNext ==
    \/ /\ FirstShape
       /\ \E input \in ShapeInputs : ShapeBegin(input)
    \/ \E p \in ShapeCells : ShapeDown(p)
    \/ \E p \in ShapeCells : ShapeDrag(p)
    \/ \E p \in ShapeCells : ShapeMoved(p)
    \/ \E p \in MousePositions : ShapeUp(p)
    \/ ShapeEsc

ShapeSpec == ShapeInit /\ [][ShapeNext]_vars

----------------------------------------------------------------------------
(* Properties                                                              *)

Live == <<canvas, canvas_history, history_index>>

\* the step handles an event of this kind
Handles(kind) == op'.kind = kind

\* the step is a commit: a pointer-up of a shape session with both points set,
\* the second pointer-down of a line session, the exit of a paint or erase
\* session, a successful load
CommitStep ==
    \/ mode = "shape" /\ Handles("shape_up") /\ start_pos # None /\ end_pos # None
    \/ mode = "line" /\ Handles("line_down") /\ start_pos # None
    \/ mode = "paint" /\ Handles("paint_exit")
    \/ mode = "erase" /\ Handles("erase_exit")
    \/ mode = "main" /\ Handles("load")

\* the state is the one a commit left
Committed ==
    /\ mode = "main"
    /\ \/ op.kind = "shape_up" /\ op.phase = 2
       \/ op.kind = "line_down" /\ op.phase = 1
       \/ op.kind \in {"paint_exit", "erase_exit", "load"}

\* the history a push of snapshot c at cursor index leaves
Pushed(history, index, c) == Append(SubSeq(history, 1, index + 1), c)

\* C1: every commit made with the cursor at c leaves the history equal to its
\* first c+1 snapshots followed by a copy of the live canvas, with the cursor
\* on that last entry; a redo handled right after a commit changes nothing.
C1_CommitTruncatesAndAppends ==
    [][ /\ CommitStep =>
            /\ canvas_history' = Pushed(canvas_history, history_index, canvas')
            /\ history_index' = history_index + 1
            /\ history_index' = Len(canvas_history') - 1
        /\ (Committed /\ Handles("redo")) => UNCHANGED Live ]_vars

\* a commit that followed an undo: it found snapshots after the cursor and
\* left none
C1_Witness ==
    /\ Committed
    /\ op.len > op.idx + 1
    /\ Len(canvas_history) = op.idx + 2
    /\ history_index = op.idx + 1

\* C2: in every reachable state the snapshot sequence is non-empty and
\* 0 <= cursor < number of snapshots.
C2_CursorInRange ==
    /\ Len(canvas_history) >= 1
    /\ 0 <= history_index
    /\ history_index < Len(canvas_history)

\* a redo handled with the cursor on the last of three snapshots
C2_Witness ==
    /\ op.kind = "redo"
    /\ op.len = 3
    /\ op.idx = 2
    /\ history_index = 2

\* C3: an undo with cursor > 0 decrements the cursor by one and makes the live
\* canvas the snapshot at the new cursor; a redo with cursor < length-1
\* increments it by one and makes the live canvas the snapshot at the new
\* cursor; neither changes the snapshot sequence.
C3_UndoRedoStep ==
    [][ /\ (mode = "main" /\ Handles("undo") /\ history_index > 0) =>
            /\ history_index' = history_index - 1
            /\ canvas' = canvas_history[history_index' + 1]
            /\ UNCHANGED canvas_history
        /\ (mode = "main" /\ Handles("redo") /\ history_index < Len(canvas_history) - 1) =>
            /\ history_index' = history_index + 1
            /\ canvas' = canvas_history[history_index' + 1]
            /\ UNCHANGED canvas_history ]_vars

\* S0, S1, S2 distinct, two undos back at S0, and the redo has given S1
C3_Witness ==
    /\ op.kind = "redo"
    /\ op.idx = 0
    /\ op.len = 3
    /\ Len(canvas_history) = 3
    /\ history_index = 1
    /\ canvas = canvas_history[2]
    /\ canvas_history[1] # canvas_history[2]
    /\ canvas_history[2] # canvas_history[3]
    /\ canvas_history[1] # canvas_history[3]

\* C4: an undo at cursor 0 and a redo at cursor length-1 leave the cursor, the
\* snapshot sequence and the live canvas unchanged.
C4_UndoRedoAtEnds ==
    [][ /\ (mode = "main" /\ Handles("undo") /\ history_index = 0) => UNCHANGED Live
        /\ (mode = "main" /\ Handles("redo") /\ history_index = Len(canvas_history) - 1)
               => UNCHANGED Live ]_vars

\* a redo handled at the tail of a history of several snapshots
C4_Witness ==
    /\ op.kind = "redo"
    /\ op.len >= 2
    /\ op.idx = op.len - 1
    /\ history_index = op.idx

\* C5 as stated: a pointer-down with the start point set commits on that
\* event: a snapshot is pushed and the session ends.
C5_DownCommits ==
    [][ (mode = "shape" /\ Handles("shape_down") /\ start_pos # None) =>
            /\ mode' = "main"
            /\ canvas_history' = Pushed(canvas_history, history_index, canvas')
            /\ history_index' = history_index + 1 ]_vars

\* C5 amended: a pointer-down with the start point set records the end point
\* and nothing else (the canvas and the history are unchanged, the session
\* goes on); the commit is made by a pointer-up received while both points are
\* set: the shape is drawn on the live canvas, one snapshot is pushed and the
\* session ends.
C5_UpCommits ==
    [][ /\ \A p \in MousePositions :
            (mode = "shape" /\ Handles("shape_down") /\ start_pos # None /\ ShapeDown(p)) =>
                /\ end_pos' = p
                /\ mode' = "shape"
                /\ UNCHANGED <<Live, start_pos>>
        /\ (mode = "shape" /\ Handles("shape_up") /\ start_pos # None /\ end_pos # None) =>
                /\ canvas' = shape_draw(canvas, start_pos, end_pos, is_circle, current_color)
                /\ canvas_history' = Pushed(canvas_history, history_index, canvas')
                /\ history_index' = history_index + 1
                /\ mode' = "main"
        /\ (mode = "shape" /\ Handles("shape_up") /\ ~(start_pos # None /\ end_pos # None)) =>
                /\ mode' = "shape"
                /\ UNCHANGED Live ]_vars

\* a pointer-up has committed a shape that changed the canvas
C5_Witness ==
    /\ mode = "main"
    /\ op.kind = "shape_up"
    /\ op.phase = 2
    /\ Len(canvas_history) = op.idx + 2
    /\ history_index = op.idx + 1
    /\ canvas = canvas_history[history_index + 1]
    /\ canvas # canvas_history[history_index]

\* C6 as stated: with a start point set, every pointer move and every pointer
\* drag sets the end point to the event's position.
C6_MoveDragSetEnd ==
    [][ \A p \in MousePositions :
            (mode = "shape" /\ start_pos # None /\ (ShapeMoved(p) \/ ShapeDrag(p)))
                => end_pos' = p ]_vars

\* C7: Esc in a shape or line session, in any phase, leaves the live canvas,
\* the snapshot sequence and the cursor as they were when the session began.
C7_CancelRestoresNothing ==
    [][ (mode \in {"shape", "line"} /\ (Handles("shape_esc") \/ Handles("line_esc"))) =>
            /\ mode' = "main"
            /\ canvas' = sess[1].canvas
            /\ canvas_history' = sess[1].history
            /\ history_index' = sess[1].index ]_vars

\* a shape session cancelled with both points set, after an earlier commit
C7_Witness ==
    /\ mode = "main"
    /\ op.kind = "shape_esc"
    /\ op.phase = 2
    /\ op.len >= 2

\* C8: while a shape session has not committed, the live canvas, the
\* snapshots and the cursor equal their values at session start, whatever
\* previews were rendered.
C8_PreviewLeavesLive ==
    mode = "shape" =>
        /\ canvas = sess[1].canvas
        /\ canvas_history = sess[1].history
        /\ history_index = sess[1].index

\* a move has been handled and the preview rendered shows a shape the live
\* canvas does not have
C8_Witness ==
    /\ mode = "shape"
    /\ op.kind = "shape_moved"
    /\ start_pos # None
    /\ end_pos # None
    /\ preview_canvas[1] # canvas

\* C9: in a line session the first pointer-down only records the start point;
\* the second draws the line from the start to that point on the live canvas,
\* pushes one snapshot and ends the session; other pointer events change
\* nothing.
C9_LineTool ==
    [][ /\ \A p \in MousePositions :
            (mode = "line" /\ start_pos = None /\ LineDown(p)) =>
                /\ start_pos' = <<p[1] \div 2, p[2]>>
                /\ mode' = "line"
                /\ UNCHANGED Live
        /\ \A p \in MousePositions :
            (mode = "line" /\ start_pos # None /\ LineDown(p)) =>
                /\ canvas' = draw_line(canvas, start_pos[1], start_pos[2],
                                       p[1] \div 2, p[2], current_color)
                /\ canvas_history' = Pushed(canvas_history, history_index, canvas')
                /\ history_index' = history_index + 1
                /\ mode' = "main"
        /\ (mode = "line" /\ Handles("line_other")) =>
                UNCHANGED <<Live, mode, start_pos>> ]_vars

\* the second pointer-down has committed a line that changed the canvas
C9_Witness ==
    /\ mode = "main"
    /\ op.kind = "line_down"
    /\ op.phase = 1
    /\ Len(canvas_history) = op.idx + 2
    /\ canvas = canvas_history[history_index + 1]
    /\ canvas # canvas_history[history_index]

\* C10: a paint or erase session pushes one snapshot, at its exit; drags and
\* pointer-ups push nothing and do not end the session.
C10_OneSnapshotPerSession ==
    /\ [](mode \in {"paint", "erase"} =>
            /\ canvas_history = sess[1].history
            /\ history_index = sess[1].index)
    /\ [][ /\ (mode \in {"paint", "erase"}
                /\ (Handles("paint_exit") \/ Handles("erase_exit"))) =>
                /\ mode' = "main"
                /\ canvas_history' = Pushed(sess[1].history, sess[1].index, canvas)
                /\ history_index' = sess[1].index + 1
           /\ (mode \in {"paint", "erase"}
                /\ ~(Handles("paint_exit") \/ Handles("erase_exit"))) =>
                /\ mode' = mode
                /\ UNCHANGED HistoryVars ]_vars

\* a paint session has exited after strokes that changed the canvas: one
\* snapshot more than the cursor it started at
C10_Witness ==
    /\ mode = "main"
    /\ op.kind = "paint_exit"
    /\ Len(canvas_history) = op.idx + 2
    /\ history_index = op.idx + 1
    /\ canvas = canvas_history[history_index + 1]
    /\ canvas # canvas_history[history_index]

\* the color a freehand session draws with
FreehandColor == IF mode = "paint" THEN current_color ELSE White

\* C11: in a paint or erase session a drag sample draws the thick line from
\* the last sampled point to the sampled point when there is a last point and
\* one brush stamp at the sampled point when there is none, and makes the
\* sampled point the last point; a pointer-up clears the last point and
\* leaves the canvas alone, so the drag handled right after a pointer-up
\* draws one stamp.
C11_DragSegmentOrStamp ==
    [][ /\ \A p \in MousePositions :
            ((PaintDrag(p) \/ EraseDrag(p)) /\ last_pos # None) =>
                /\ canvas' = draw_line_with_brush(canvas, last_pos[1], last_pos[2],
                                                  p[1] \div 2, p[2],
                                                  brush_thickness, FreehandColor)
                /\ last_pos' = <<p[1] \div 2, p[2]>>
        /\ \A p \in MousePositions :
            ((PaintDrag(p) \/ EraseDrag(p)) /\ last_pos = None) =>
                /\ canvas' = draw_brush_stroke(canvas, p[1] \div 2, p[2],
                                               brush_thickness, FreehandColor)
                /\ last_pos' = <<p[1] \div 2, p[2]>>
        /\ (mode \in {"paint", "erase"}
               /\ (Handles("paint_up") \/ Handles("erase_up"))) =>
                /\ last_pos' = None
                /\ canvas' = canvas
        /\ \A p \in MousePositions :
            (op.kind \in {"paint_up", "erase_up"} /\ (PaintDrag(p) \/ EraseDrag(p))) =>
                canvas' = draw_brush_stroke(canvas, p[1] \div 2, p[2],
                                            brush_thickness, FreehandColor) ]_vars

\* a pointer-up has ended a stroke that changed the canvas: the last point is
\* cleared while the session goes on
C11_Witness ==
    /\ mode = "paint"
    /\ op.kind = "paint_up"
    /\ last_pos = None
    /\ canvas # sess[1].canvas

\* C12: at every state of a paint or erase session, each event (a drag
\* sample, a pointer-up, an exit key, anything else) takes the erase loop to
\* the canvas, last point, history and cursor that it takes the paint loop to
\* when the paint loop draws in white with the same thickness.
C12_EraseIsWhitePaint ==
    mode \in {"paint", "erase"} =>
        \A ev \in FreehandEvents :
            erase_event(FreehandState, ev, brush_thickness)
                = paint_event(FreehandState, ev, brush_thickness, <<255, 255, 255>>)

\* an eraser two cells thick has whitened cells of the session's canvas
C12_Witness ==
    /\ mode = "erase"
    /\ op.kind = "erase_drag"
    /\ brush_thickness = 2
    /\ canvas # sess[1].canvas

\* C13: the file written by saving a canvas whose pixel count is width*height
\* holds 8 + 3*width*height bytes, and loading it succeeds with a canvas of
\* the same width, the same height and the same color at every pixel.
C13_SaveLoadRoundTrip ==
    /\ op.kind = "codec_save" =>
            Len(op.file.val) = 8 + 3 * canvas.width * canvas.height
    /\ op.kind = "codec_load" =>
            /\ op.ok
            /\ canvas.width = sess[1].canvas.width
            /\ canvas.height = sess[1].canvas.height
            /\ Len(canvas.pixels) = canvas.width * canvas.height
            /\ \A i \in 1..Len(sess[1].canvas.pixels) :
                    canvas.pixels[i] = sess[1].canvas.pixels[i]

\* a 2 x 2 canvas of three colors has come back from its file
C13_Witness ==
    /\ mode = "codec"
    /\ op.kind = "codec_load"
    /\ canvas.width = 2
    /\ canvas.height = 2
    /\ canvas.pixels = <<White, <<7, 128, 255>>, Black, <<7, 128, 255>>>>

\* the canvas whose width fills two header bytes has come back from its file
C13_WideWitness ==
    /\ op.kind = "codec_load"
    /\ canvas.width = WideSide
    /\ SubSeq(op.file.val, 1, 4) = <<WideSide % 256, WideSide \div 256, 0, 0>>

\* the file exists and ends before its 8 header bytes or before the
\* 3*width*height pixel bytes its header declares
Truncated(file) ==
    /\ file.ok
    /\ \/ Len(file.val) < 8
       \/ capacity_overflow(file.val)
       \/ beyond_address_space(file.val)
       \/ Len(file.val) - 8
              < 3 * u32_from_le_bytes(file.val, 0) * u32_from_le_bytes(file.val, 4)

\* the file exists and its header declares width 0 or height 0
ZeroArea(file) ==
    /\ file.ok
    /\ Len(file.val) >= 8
    /\ \/ u32_from_le_bytes(file.val, 0) = 0
       \/ u32_from_le_bytes(file.val, 4) = 0

\* C14 as stated: load_canvas returns an error for a file with fewer than 8
\* header bytes or fewer than 3*width*height bytes after them, and a load of
\* such a file returns to the main loop with the live canvas, the snapshot
\* sequence and the cursor as they were.
C14_ShortFileFails ==
    [][ \A filename \in LoadInputs :
            (mode = "main" /\ Truncated(open_file(filename)) /\ Load(filename)) =>
                /\ \A granted \in alloc_granted(open_file(filename)) :
                       load_canvas(open_file(filename), granted) = Err
                /\ mode' = "main"
                /\ UNCHANGED Live ]_vars

\* C15 as stated: a load of a file whose header declares width 0 or height 0
\* returns an error, and leaves the live canvas and the history as they were.
C15_ZeroAreaRejected ==
    [][ \A filename \in LoadInputs :
            (mode = "main" /\ ZeroArea(open_file(filename)) /\ Load(filename)) =>
                /\ \A granted \in alloc_granted(open_file(filename)) :
                       ~load_canvas(open_file(filename), granted).ok
                /\ UNCHANGED Live ]_vars

\* C16: a load that succeeds makes the decoded canvas the live canvas and
\* pushes it as one snapshot after the snapshots up to the old cursor, with
\* the cursor on it; the snapshot below the new cursor is the canvas that was
\* live before the load, and an undo handled right after the load makes it
\* the live canvas again.
C16_LoadCommits ==
    [][ /\ \A filename \in LoadInputs :
            (mode = "main" /\ Handles("load") /\ Load(filename)) =>
                /\ \E granted \in alloc_granted(open_file(filename)) :
                       canvas' = load_canvas(open_file(filename), granted).val
                /\ canvas_history' = Pushed(canvas_history, history_index, canvas')
                /\ history_index' = history_index + 1
                /\ history_index' = Len(canvas_history') - 1
                /\ canvas_history'[history_index'] = canvas
        /\ (op.kind = "load" /\ Handles("undo")) =>
                /\ history_index' = history_index - 1
                /\ canvas' = canvas_history[history_index]
                /\ canvas_history' = canvas_history ]_vars

\* a load made after an undo has replaced a 2 x 2 canvas by the 1 x 2 image,
\* dropped the snapshot that followed the cursor and kept the one below
C16_Witness ==
    /\ mode = "main"
    /\ op.kind = "load"
    /\ op.len = op.idx + 2
    /\ Len(canvas_history) = op.idx + 2
    /\ history_index = op.idx + 1
    /\ canvas.width = 1
    /\ canvas_history[history_index].width = 2

\* C17: the brush thickness is between 1 and 10 in every reachable state,
\* whatever is typed at the thickness prompt (0, 15, 015, text that is no
\* number), so every stamp and thick line of a paint or erase session is
\* drawn with a thickness between 1 and 10.
C17_ThicknessInRange ==
    brush_thickness \in 1..10

\* a paint session has stamped with the thickness that 15 was cut down to:
\* one stamp covers the whole 2 x 2 canvas
C17_Witness ==
    /\ mode = "paint"
    /\ op.kind = "paint_drag"
    /\ brush_thickness = 10
    /\ canvas.pixels = <<Black, Black, Black, Black>>
    /\ sess[1].canvas.pixels = <<White, White, White, White>>

\* the text is an unsigned number outside [1, 10]
OutOfRange(input) ==
    parse_usize(input).ok /\ parse_usize(input).val \notin 1..10

\* C18 as stated: a number outside [1, 10] typed at the thickness prompt
\* leaves the thickness at the value it had.
C18_OutOfRangeIgnored ==
    [][ \A input \in WideThicknessInputs :
            (SetThickness(input) /\ OutOfRange(input)) =>
                brush_thickness' = brush_thickness ]_vars

\* C18, corrected: a number typed at the thickness prompt sets the thickness
\* to the nearest value of [1, 10] (0 gives 1, 15 gives 10); only text
\* that does not parse as a usize (no unsigned number, or one above
\* 2^64 - 1) leaves the thickness at the value it had.
C18_OutOfRangeClamped ==
    [][ \A input \in WideThicknessInputs :
            SetThickness(input) =>
                brush_thickness' =
                    IF ~parse_usize(input).ok THEN brush_thickness
                    ELSE IF parse_usize(input).val < 1 THEN 1
                    ELSE IF parse_usize(input).val > 10 THEN 10
                    ELSE parse_usize(input).val ]_vars

\* the thickness prompt has left the thickness at 10, which no number of the
\* inputs names: a larger one was cut down to it
C18_Witness ==
    /\ mode = "main"
    /\ op.kind = "thickness"
    /\ brush_thickness = 10
    /\ \A input \in WideThicknessInputs :
            parse_usize(input).ok => parse_usize(input).val # 10

\* the canvas keeps its width, its height and its number of pixels
SameShape(before, after) ==
    /\ after.width = before.width
    /\ after.height = before.height
    /\ Len(after.pixels) = Len(before.pixels)

\* C19: set_pixel(x, y, c) with x < width and y < height gives the pixel at
\* index y*width+x the color c and leaves every other pixel as it was; with
\* x >= width or y >= height it returns the canvas as it was.
C19_SetPixelFrame ==
    op.kind = "set_pixel" =>
        LET before == sess[1].canvas
        IN /\ SameShape(before, canvas)
           /\ IF op.x < before.width /\ op.y < before.height
              THEN \A i \in 1..Len(before.pixels) :
                        canvas.pixels[i] = IF i = op.y * before.width + op.x + 1
                                           THEN op.color
                                           ELSE before.pixels[i]
              ELSE canvas = before

\* set_pixel(1, 1, black) has changed the fifth pixel of a 3 x 2 canvas
\* of grey and white cells
C19_Witness ==
    /\ op.kind = "set_pixel"
    /\ op.x = 1
    /\ op.y = 1
    /\ canvas.width = 3
    /\ canvas.height = 2
    /\ canvas.pixels = <<Grey, White, Grey, White, Black, White>>

\* C20: on a canvas that holds no pixel of the draw color, draw_circle with
\* center (cx, cy) and radius r >= 0 leaves a pixel (x, y) of the canvas in
\* the draw color exactly when (x-cx)^2 + (y-cy)^2 <= r^2, and leaves every
\* other pixel in the color it had.
C20_CircleIsClippedDisk ==
    (op.kind = "draw_circle"
        /\ \A i \in 1..Len(sess[1].canvas.pixels) : sess[1].canvas.pixels[i] # op.color) =>
        LET before == sess[1].canvas
        IN /\ SameShape(before, canvas)
           /\ \A x \in 0..(before.width - 1), y \in 0..(before.height - 1) :
                LET inside == (x - op.cx) * (x - op.cx) + (y - op.cy) * (y - op.cy)
                                  <= op.radius * op.radius
                    i == y * before.width + x + 1
                IN /\ (canvas.pixels[i] = op.color) <=> inside
                   /\ ~inside => canvas.pixels[i] = before.pixels[i]

\* a disk of radius 2 centered one cell left of a 3 x 3 canvas has been cut
\* at the canvas edge: it covers the first column and the middle of the second
C20_Witness ==
    /\ op.kind = "draw_circle"
    /\ op.cx = -1
    /\ op.cy = 1
    /\ op.radius = 2
    /\ canvas.width = 3
    /\ canvas.height = 3
    /\ canvas.pixels = <<Black, White, White, Black, Black, White, Black, White, White>>

\* the canvas before the call that op records
Before == sess[1].canvas

\* the pixel (x, y) of canvas c
At(c, x, y) == c.pixels[y * c.width + x + 1]

\* (x, y) lies in the inclusive box of center (cx, cy) and half-extents hx, hy
InBox(x, y, cx, cy, hx, hy) ==
    /\ cx - hx <= x /\ x <= cx + hx
    /\ cy - hy <= y /\ y <= cy + hy

\* C21: for a center inside the canvas and half-extents >= 0, draw_rectangle
\* (one half-size for both axes) and draw_rect_preview (hx and hy) give the
\* draw color to the pixels of the canvas that lie in the inclusive box
\* [cx-hx, cx+hx] x [cy-hy, cy+hy], leave every other pixel as it was, and
\* return.
C21_RectangleIsClippedBox ==
    (op.kind \in {"draw_rectangle", "draw_rect_preview"}
        /\ InCanvas(Before, op.cx, op.cy) /\ op.hx >= 0 /\ op.hy >= 0) =>
        /\ op.returned
        /\ SameShape(Before, canvas)
        /\ \A x \in 0..(Before.width - 1), y \in 0..(Before.height - 1) :
              At(canvas, x, y) = IF InBox(x, y, op.cx, op.cy, op.hx, op.hy)
                                 THEN op.color
                                 ELSE At(Before, x, y)

\* draw_rectangle at (10, 10) with half-size 3 has colored the 49 pixels of
\* [7, 13] x [7, 13] on the 14 x 14 canvas
C21_Witness ==
    /\ op.kind = "draw_rectangle"
    /\ op.cx = 10 /\ op.cy = 10 /\ op.hx = 3
    /\ op.color = Black
    /\ op.returned
    /\ canvas.width = 14
    /\ Cardinality({i \in 1..Len(canvas.pixels) : canvas.pixels[i] = Black}) = 49
    /\ At(canvas, 7, 7) = Black
    /\ At(canvas, 13, 13) = Black
    /\ At(canvas, 6, 10) = White

\* C22: draw_line from a point of the canvas to the same point gives that
\* pixel the draw color and leaves every other pixel as it was.
C22_PointLine ==
    (op.kind = "draw_line" /\ op.x0 = op.x1 /\ op.y0 = op.y1
        /\ InCanvas(Before, op.x0, op.y0)) =>
        /\ SameShape(Before, canvas)
        /\ \A i \in 1..Len(Before.pixels) :
              canvas.pixels[i] = IF i = op.y0 * Before.width + op.x0 + 1
                                 THEN op.color
                                 ELSE Before.pixels[i]

\* the line from (1, 1) to (1, 1) has changed the fifth pixel of a 3 x 2
\* canvas of grey and white cells
C22_Witness ==
    /\ op.kind = "draw_line"
    /\ op.x0 = 1 /\ op.y0 = 1 /\ op.x1 = 1 /\ op.y1 = 1
    /\ canvas.width = 3
    /\ canvas.height = 2
    /\ canvas.pixels = <<Grey, White, Grey, White, Black, White>>

\* the pixel vector of c has one entry per cell
WellFormed(c) == Len(c.pixels) = c.width * c.height

\* C23: in every state the editor reaches (after drawing, commits, undo, redo,
\* loads that succeed and loads that fail) the live canvas and every snapshot
\* of the history hold width * height pixels.
C23_PixelCount ==
    /\ WellFormed(canvas)
    /\ \A i \in 1..Len(canvas_history) : WellFormed(canvas_history[i])

\* an undo has gone back from a loaded 1 x 2 image, which stays in the
\* history, to a canvas of four pixels
C23_Witness ==
    /\ op.kind = "undo"
    /\ canvas.width = 2 /\ canvas.height = 2
    /\ Len(canvas.pixels) = 4
    /\ \E i \in 1..Len(canvas_history) :
          /\ canvas_history[i].width = 1 /\ canvas_history[i].height = 2
          /\ Len(canvas_history[i].pixels) = 2

\* C29: no step changes a snapshot that stays in the history: the history
\* after a step is the history before it, or a prefix of it followed by one
\* new snapshot equal to the live canvas the step leaves.
C29_SnapshotsAreFrozen ==
    [][ \/ canvas_history' = canvas_history
        \/ \E k \in 1..Len(canvas_history) :
              canvas_history' = Append(SubSeq(canvas_history, 1, k), canvas')
      ]_vars

\* a paint stroke has changed the live canvas while two snapshots, the one at
\* the cursor among them, keep what they held
C29_Witness ==
    /\ mode = "paint"
    /\ op.kind = "paint_drag"
    /\ Len(canvas_history) >= 2
    /\ canvas # canvas_history[history_index + 1]
    /\ canvas_history = sess[1].history

\* C30: in the main loop, with no tool session running, the live canvas is
\* the snapshot at the cursor.
C30_IdleCanvasIsCursorSnapshot ==
    mode = "main" => canvas = canvas_history[history_index + 1]

\* a save after an undo in a history of three distinct snapshots
C30_Witness ==
    /\ mode = "main"
    /\ op.kind = "save"
    /\ Len(canvas_history) = 3
    /\ history_index = 1
    /\ canvas = canvas_history[2]
    /\ canvas # canvas_history[1]
    /\ canvas # canvas_history[3]

\* the inclusive box of center (cx, cy) and half-extents hx, hy holds no cell
\* of canvas c: an extent is negative, or the box lies beside the canvas
BoxIsEmpty(c, cx, cy, hx, hy) ==
    \/ hx < 0 \/ hy < 0
    \/ cx + hx < 0 \/ cy + hy < 0
    \/ cx - hx > c.width - 1 \/ cy - hy > c.height - 1

\* C24: draw_rectangle and draw_rect_preview return and change no pixel when
\* the box clamped to the canvas is empty: the box lies outside the canvas on
\* some side (left of it and above it included), or a half-extent is negative.
C24_EmptyBoxIsNoOp ==
    (op.kind \in {"draw_rectangle", "draw_rect_preview"}
        /\ BoxIsEmpty(Before, op.cx, op.cy, op.hx, op.hy)) =>
        /\ op.returned
        /\ canvas = Before

\* (x, y) lies in the t x t brush square stamped at point p
InStamp(x, y, p, t) ==
    /\ p[1] - (t \div 2) <= x /\ x <= p[1] - (t \div 2) + t - 1
    /\ p[2] - (t \div 2) <= y /\ y <= p[2] - (t \div 2) + t - 1

\* C25: draw_line_with_brush colors the pixels of the canvas that lie in the
\* t x t brush square of some point the stepping of draw_line visits from p0
\* to p1, points outside the canvas included, and no other pixel.
C25_BrushLineIsUnionOfStamps ==
    op.kind = "draw_line_with_brush" =>
        LET visited == line_points(op.x0, op.y0, op.x1, op.y1)
        IN \A x \in 0..(Before.width - 1), y \in 0..(Before.height - 1) :
              At(canvas, x, y) =
                  IF \E k \in 1..Len(visited) : InStamp(x, y, visited[k], op.thickness)
                  THEN op.color
                  ELSE At(Before, x, y)

\* C26: for endpoints on or off the canvas, the stepping loop of draw_line and
\* of draw_line_with_brush ends after max(|x1 - x0|, |y1 - y0|) + 1 points,
\* the first of them (x0, y0) and the last (x1, y1); an endpoint inside the
\* canvas has the draw color afterwards, and draw_line colors the visited
\* points of the canvas and nothing else.
C26_LineReachesBothEnds ==
    op.kind \in {"draw_line", "draw_line_with_brush"} =>
        LET visited == line_points(op.x0, op.y0, op.x1, op.y1)
        IN /\ Len(visited) = Max(Abs(op.x1 - op.x0), Abs(op.y1 - op.y0)) + 1
           /\ visited[1] = <<op.x0, op.y0>>
           /\ visited[Len(visited)] = <<op.x1, op.y1>>
           /\ InCanvas(Before, op.x0, op.y0) => At(canvas, op.x0, op.y0) = op.color
           /\ InCanvas(Before, op.x1, op.y1) => At(canvas, op.x1, op.y1) = op.color
           /\ op.kind = "draw_line" =>
                 \A x \in 0..(Before.width - 1), y \in 0..(Before.height - 1) :
                    At(canvas, x, y) =
                        IF \E k \in 1..Len(visited) : visited[k] = <<x, y>>
                        THEN op.color
                        ELSE At(Before, x, y)

\* a brush line of thickness 1 from (-1, 2), left of a white 3 x 3 canvas, to
\* (2, 0) has colored its end point and left the corner (0, 0) white
C26_Witness ==
    /\ op.kind = "draw_line_with_brush"
    /\ op.x0 = -1 /\ op.y0 = 2 /\ op.x1 = 2 /\ op.y1 = 0
    /\ op.thickness = 1
    /\ Before = Canvas_new(3, 3)
    /\ At(canvas, 2, 0) = Black
    /\ At(canvas, 0, 0) = White

\* C27: draw_brush_stroke at (x, y) with thickness t colors the pixels of the
\* canvas in the square [x - t/2, x - t/2 + t - 1] x [y - t/2, y - t/2 + t - 1]
\* (floor division) and no other pixel; with t = 1 and (x, y) inside the
\* canvas that is the pixel (x, y) alone.
C27_StampIsClippedSquare ==
    op.kind = "draw_brush_stroke" =>
        /\ \A x \in 0..(Before.width - 1), y \in 0..(Before.height - 1) :
              At(canvas, x, y) =
                  IF InStamp(x, y, <<op.x, op.y>>, op.thickness)
                  THEN op.color
                  ELSE At(Before, x, y)
        /\ (op.thickness = 1 /\ InCanvas(Before, op.x, op.y)) =>
              \A i \in 1..Len(Before.pixels) :
                 canvas.pixels[i] = IF i = op.y * Before.width + op.x + 1
                                    THEN op.color
                                    ELSE Before.pixels[i]

\* a stamp of thickness 2 at (1, 1) has colored the four pixels of
\* [0, 1] x [0, 1] on a white 3 x 3 canvas, up and left of its center
C27_Witness ==
    /\ op.kind = "draw_brush_stroke"
    /\ op.x = 1 /\ op.y = 1 /\ op.thickness = 2
    /\ op.color = Black
    /\ Before = Canvas_new(3, 3)
    /\ {i \in 1..9 : canvas.pixels[i] = Black} = {1, 2, 4, 5}

\* the canvas pixel under terminal cell p: two columns per pixel
CellPixel(p) == <<Div(p[1], 2), p[2]>>

\* C28: the pointer-up that commits a shape draws it around the integer
\* midpoint of the start and end pixels: a circle of radius
\* max(max(|dx|, |dy|) / 2, 1), or a rectangle of half-extents
\* max(|dx| / 2, 1) and max(|dy| / 2, 1); with start and end on one pixel of
\* the canvas, that pixel and its four neighbours on the canvas get the
\* draw color.
C28_CommittedShapeGeometry ==
    [][ (mode = "shape" /\ Handles("shape_up") /\ start_pos # None /\ end_pos # None) =>
          LET s  == CellPixel(start_pos)
              e  == CellPixel(end_pos)
              dx == Abs(e[1] - s[1])
              dy == Abs(e[2] - s[2])
              cx == (s[1] + e[1]) \div 2
              cy == (s[2] + e[2]) \div 2
              r  == Max(Max(dx, dy) \div 2, 1)
              hx == Max(dx \div 2, 1)
              hy == Max(dy \div 2, 1)
          IN /\ SameShape(canvas, canvas')
             /\ \A x \in 0..(canvas.width - 1), y \in 0..(canvas.height - 1) :
                   At(canvas', x, y) =
                       IF IF is_circle
                          THEN (x - cx) * (x - cx) + (y - cy) * (y - cy) <= r * r
                          ELSE InBox(x, y, cx, cy, hx, hy)
                       THEN current_color
                       ELSE At(canvas, x, y)
             /\ (s = e /\ InCanvas(canvas, s[1], s[2])) =>
                   \A n \in {s, <<s[1] - 1, s[2]>>, <<s[1] + 1, s[2]>>,
                             <<s[1], s[2] - 1>>, <<s[1], s[2] + 1>>} :
                      InCanvas(canvas, n[1], n[2]) => At(canvas', n[1], n[2]) = current_color
      ]_vars

\* a committed circle of radius 1 around (1, 1) on the 3 x 3 canvas, as a
\* session with both points on pixel (1, 1) leaves it: the center and its
\* four neighbours are black, the corners white
C28_Witness ==
    /\ mode = "main"
    /\ op.kind = "shape_up" /\ op.phase = 2
    /\ canvas.width = 3 /\ canvas.height = 3
    /\ {i \in 1..9 : canvas.pixels[i] = Black} = {2, 4, 5, 6, 8}
    /\ canvas_history = <<Canvas_new(3, 3), canvas>>

\* C31: for endpoints on or off the canvas and any canvas,
\* draw_line_with_brush with thickness 1 leaves the canvas that draw_line
\* leaves for the same endpoints and color.
C31_ThinBrushLineIsLine ==
    (op.kind = "draw_line_with_brush" /\ op.thickness = 1) =>
        canvas = draw_line(Before, op.x0, op.y0, op.x1, op.y1, op.color)

\* a brush line of thickness 1 from (3, 0), right of a 3 x 2 canvas of grey
\* and white cells, to (0, 1) has blackened the cells (2, 0), (1, 1), (0, 1)
C31_Witness ==
    /\ op.kind = "draw_line_with_brush"
    /\ op.thickness = 1
    /\ op.x0 = 3 /\ op.y0 = 0 /\ op.x1 = 0 /\ op.y1 = 1
    /\ Before.pixels = <<Grey, White, Grey, White, Grey, White>>
    /\ canvas.width = 3
    /\ canvas # Before
    /\ At(canvas, 0, 1) = Black

============================================================================
